---- MODULE Spec2Model ----
(***************************************************************************)
(* Model of the sandl execution engine (PedroGaya/sandl).                  *)
(*                                                                         *)
(* Part 1: engine construction (EngineBuilder, Engine::register_layer,     *)
(*         Engine::set_init_layer, Engine::add_dependency) and the global  *)
(*         layer ordering (Engine::topological_sort as called by           *)
(*         Engine::run_silent / Engine::run_with_progress).                *)
(* Part 2: the per-slice wave computation (Engine::compute_method_waves),  *)
(*         as a function and followed iteration by iteration.              *)
(* Part 3: a run (Engine::run_silent, Engine::run_with_progress): batches, *)
(*         chunks, the waves of Engine::execute_slice, the argument        *)
(*         resolution of Engine::execute_method, the per-slice Context and *)
(*         its lock, the events of the Observer, the ProgressTracker, and  *)
(*         Engine::run called again on the same engine.                    *)
(* Part 4: the queries of Error and of RunResults.                         *)
(***************************************************************************)
EXTENDS Naturals, Integers, Sequences, FiniteSets, TLC

(***************************************************************************)
(* Bounds of the model.                                                    *)
(***************************************************************************)
\* longest EngineBuilder.layers vector
MaxLayers == 3
\* largest number of dependency entries recorded through the builder or
\* through Engine::add_dependency after the build
MaxDeps == 2
\* largest number of dependency entries of an engine whose slices are scheduled
MaxWaveDeps == 2

\* layer names the program uses; a name is registered or not
Names == {"A", "B", "C"}
\* method names a slice may invoke on a layer
Methods == {"m1", "m2"}
\* Option::None
None == "None"
\* Value::Null
Null == [kind |-> "Null"]

VARIABLES
    builder,    \* EngineBuilder { layers, dependencies, init_layer }
    engine,     \* Engine { layers, dependencies, init_layer, slices }
    ret,        \* value returned by the last fallible call
    sorted,     \* outcome of Engine::topological_sort in the current run
    waves,      \* per slice, the outcome of Engine::compute_method_waves
    pc,         \* position of the program
    config,     \* Engine.config: EngineConfig { batch_size, chunk_size }
    flags,      \* the RunFlags of the current run
    batch,      \* the slice positions of the batch being executed
    sl,         \* per slice, the position of its Engine::execute_slice call
    ctx,        \* the Context stores created by the run
    results,    \* all_results of Engine::run_silent, the RunResults at its end
    observer,   \* Engine.observer: its callbacks, and the events they have collected
    previous,   \* the flags and the RunResults of the runs that have returned
    query,      \* the value a caller holds and what its query methods answered
    tracker,    \* the ProgressTracker of Engine::run_with_progress and what it printed
    loop,       \* the locals of a compute_method_waves call followed iteration by iteration
    rwlock,     \* the RwLock of a Context store: the tasks holding its read and write guards
    tasks       \* the tasks of a wave that operate on clones of one Context

vars == <<builder, engine, ret, sorted, waves, pc, config, flags, batch, sl, ctx, results,
          observer, previous, query, tracker, loop, rwlock, tasks>>

\* the state of a run, untouched while no run is in progress
runvars == <<config, flags, batch, sl, ctx, results, observer, previous, query,
             tracker, loop, rwlock, tasks>>

(***************************************************************************)
(* Helpers on sequences and maps.                                          *)
(***************************************************************************)
Range(s) == {s[i] : i \in DOMAIN s}

\* all orders in which a hash container holding the keys S can be iterated
Perms(S) == {p \in [1..Cardinality(S) -> S] : \A i, j \in DOMAIN p : p[i] = p[j] => i = j}

RECURSIVE SetToSeq(_)
SetToSeq(S) == IF S = {} THEN <<>>
               ELSE LET x == CHOOSE y \in S : TRUE IN <<x>> \o SetToSeq(S \ {x})

RECURSIVE SumLen(_, _)
SumLen(f, K) == IF K = {} THEN 0
                ELSE LET k == CHOOSE x \in K : TRUE IN Len(f[k]) + SumLen(f, K \ {k})

\* number of dependency entries of a HashMap<String, Vec<String>>
NumDeps(d) == SumLen(d, DOMAIN d)

EmptyMap == [x \in {} |-> None]

(***************************************************************************)
(* crate::Result and crate::Error (src/sandl/src/error.rs).                *)
(***************************************************************************)
Ok == [tag |-> "Ok", kind |-> None, arg |-> None]
Err(kind, arg) == [tag |-> "Err", kind |-> kind, arg |-> arg]
NoRet == [tag |-> None, kind |-> None, arg |-> None]

LayerNotFound(n) == Err("LayerNotFound", n)
LayerAlreadyExists(n) == Err("LayerAlreadyExists", n)
ConfigError(msg) == Err("ConfigError", msg)

(***************************************************************************)
(* Layer, Engine::new, Engine::builder.                                    *)
(***************************************************************************)
\* a Layer value: its name, and which of the Layer objects carrying that name
\* it is (the i-th one handed to the builder)
Layer(n, i) == [name |-> n, id |-> i, methods_to_defaults |-> EmptyMap, binds |-> EmptyMap]

EngineNew == [layers |-> EmptyMap, dependencies |-> EmptyMap,
              init_layer |-> None, slices |-> <<>>]

EngineBuilderNew == [layers |-> <<>>, slices |-> <<>>, dependencies |-> EmptyMap,
                     init_layer |-> None]

\* Observer::new: no callback; nothing collected
ObserverNew == [callbacks |-> <<>>, events |-> <<>>]

\* no value queried
NoQuery == [of |-> None]

\* no ProgressTracker: Engine::run_silent creates none
NoTracker == [total |-> 0, completed |-> 0, failed |-> 0, header |-> FALSE,
              locals |-> <<>>, lines |-> <<>>, summary |-> FALSE]

\* no compute_method_waves call followed
NoLoop == [pc |-> None, remaining_layers |-> {}, completed_layers |-> {},
           waves |-> <<>>, iterations |-> 0]

\* RwLock::new: no guard is held
RwLockNew == [readers |-> {}, writer |-> {}]

\* no run in progress: the default configuration and flags, nothing executed
RunIdle ==
    /\ config = [batch_size |-> {}, chunk_size |-> 1]
    /\ flags = [silent |-> TRUE, with_observer |-> TRUE]
    /\ batch = [lo |-> 1, hi |-> 0]
    /\ sl = <<>>
    /\ ctx = <<>>
    /\ results = EmptyMap
    /\ observer = ObserverNew
    /\ previous = <<>>
    /\ tracker = NoTracker /\ loop = NoLoop /\ rwlock = RwLockNew /\ tasks = <<>>
    /\ query = NoQuery

\* HashMap::entry(k).or_insert_with(Vec::new).push(v)
PushEntry(d, k, v) == IF k \in DOMAIN d THEN [d EXCEPT ![k] = Append(@, v)]
                      ELSE d @@ (k :> <<v>>)

(***************************************************************************)
(* Engine::register_layer, Engine::set_init_layer, Engine::add_dependency. *)
(* Each yields the returned value and the engine afterwards.               *)
(***************************************************************************)
register_layer_overwrite(e, layer) ==
    IF layer.name \in DOMAIN e.layers
    THEN [ret |-> LayerAlreadyExists(layer.name),
          engine |-> [e EXCEPT !.layers = [@ EXCEPT ![layer.name] = layer]]]
    ELSE [ret |-> Ok, engine |-> [e EXCEPT !.layers = @ @@ (layer.name :> layer)]]

register_layer(e, layer) ==
    IF layer.name \in DOMAIN e.layers
    THEN [ret |-> LayerAlreadyExists(layer.name), engine |-> e]
    ELSE [ret |-> Ok, engine |-> [e EXCEPT !.layers = @ @@ (layer.name :> layer)]]

set_init_layer_unchecked(e, layer_name) ==
    IF layer_name \notin DOMAIN e.layers
    THEN [ret |-> LayerNotFound(layer_name), engine |-> [e EXCEPT !.init_layer = layer_name]]
    ELSE [ret |-> Ok, engine |-> [e EXCEPT !.init_layer = layer_name]]

set_init_layer(e, layer_name) ==
    IF layer_name \notin DOMAIN e.layers
    THEN [ret |-> LayerNotFound(layer_name), engine |-> e]
    ELSE [ret |-> Ok, engine |-> [e EXCEPT !.init_layer = layer_name]]

register_slice(e, slice) == [e EXCEPT !.slices = Append(@, slice)]

add_dependency(e, layer, depends_on) ==
    [ret |-> Ok,
     engine |-> [e EXCEPT !.dependencies = PushEntry(@, layer, depends_on)]]

(***************************************************************************)
(* EngineBuilder::build (src/sandl/src/builder.rs:260-291).                *)
(* On an early return the engine field is the local engine at that point.  *)
(***************************************************************************)
\* for layer in self.layers { engine.register_layer(layer)?; }
RECURSIVE RegisterAll(_, _, _)
RegisterAll(e, layers, i) ==
    IF i > Len(layers) THEN [ret |-> Ok, engine |-> e]
    ELSE LET r == register_layer(e, layers[i])
         IN IF r.ret.tag = "Err" THEN r ELSE RegisterAll(r.engine, layers, i + 1)

\* a build that records no edge towards the initializer
AddInitEdges_none(e, names, init_name) == e

\* for layer_name in engine.get_layer_names() { if layer_name != *init_name {
\*     engine.add_dependency(&layer_name, init_name)?; } }
\* Each iteration pushes onto the entry of a different key, so the outcome
\* does not depend on the order in which the key set is walked.
RECURSIVE AddInitEdges(_, _, _)
AddInitEdges(e, names, init_name) ==
    IF names = {} THEN e
    ELSE LET n == CHOOSE x \in names : TRUE
             e1 == IF n # init_name THEN add_dependency(e, n, init_name).engine ELSE e
         IN AddInitEdges(e1, names \ {n}, init_name)

\* for dep in deps { engine.add_dependency(&layer, &dep)?; }
RECURSIVE AddDeps(_, _, _, _)
AddDeps(e, layer, deps, j) ==
    IF j > Len(deps) THEN e
    ELSE AddDeps(add_dependency(e, layer, deps[j]).engine, layer, deps, j + 1)

\* for (layer, deps) in self.dependencies { ... }  (distinct keys commute)
RECURSIVE AddAllDeps(_, _, _)
AddAllDeps(e, d, keys) ==
    IF keys = {} THEN e
    ELSE LET k == CHOOSE x \in keys : TRUE
         IN AddAllDeps(AddDeps(e, k, d[k], 1), d, keys \ {k})

\* for slice in self.slices { engine.register_slice(slice); }
RECURSIVE RegisterSlices(_, _, _)
RegisterSlices(e, slices, i) ==
    IF i > Len(slices) THEN e
    ELSE RegisterSlices(register_slice(e, slices[i]), slices, i + 1)

build(b) ==
    LET r1 == RegisterAll(EngineNew, b.layers, 1)
    IN IF r1.ret.tag = "Err" THEN r1
       ELSE LET r2 == IF b.init_layer # None
                      THEN set_init_layer(r1.engine, b.init_layer)
                      ELSE [ret |-> Ok, engine |-> r1.engine]
            IN IF r2.ret.tag = "Err" THEN r2
               ELSE LET e3 == IF b.init_layer # None
                              THEN AddInitEdges(r2.engine, DOMAIN r2.engine.layers, b.init_layer)
                              ELSE r2.engine
                        e4 == AddAllDeps(e3, b.dependencies, DOMAIN b.dependencies)
                        e5 == RegisterSlices(e4, b.slices, 1)
                    IN [ret |-> Ok, engine |-> e5]

(***************************************************************************)
(* Engine::topological_sort (src/sandl/src/engine.rs:31-84).               *)
(*                                                                         *)
(* korder is the order in which in_degree.iter() yields the layer names    *)
(* and dorder the order in which `for (layer, deps) in &self.dependencies` *)
(* walks the dependency map; both are hash orders, so the callers below    *)
(* range over all of them.                                                 *)
(* The outcome is Ok with the ordering, Err with the error, or Panic when  *)
(* in_degree.get_mut(layer).unwrap() meets a dependent layer that is not   *)
(* registered.                                                             *)
(***************************************************************************)
SortOk(order) == [tag |-> "Ok", kind |-> None, arg |-> None, order |-> order]
SortErr(kind, arg) == [tag |-> "Err", kind |-> kind, arg |-> arg, order |-> <<>>]
SortPanic == [tag |-> "Panic", kind |-> "unwrap", arg |-> None, order |-> <<>>]
NoSort == [tag |-> None, kind |-> None, arg |-> None, order |-> <<>>]

\* for dep in deps { if !self.layers.contains_key(dep) { return Err(..) }
\*                   graph.get_mut(dep).unwrap().push(layer.clone()); }
RECURSIVE PushDependents(_, _, _, _, _)
PushDependents(e, layer, deps, j, graph) ==
    IF j > Len(deps) THEN [tag |-> "Ok", graph |-> graph, arg |-> None]
    ELSE IF deps[j] \notin DOMAIN e.layers
         THEN [tag |-> "Err", graph |-> graph, arg |-> deps[j]]
         ELSE PushDependents(e, layer, deps, j + 1,
                             [graph EXCEPT ![deps[j]] = Append(@, layer)])

\* for (layer, deps) in &self.dependencies { *in_degree.get_mut(layer).unwrap() = deps.len(); ... }
RECURSIVE FillGraph(_, _, _, _, _)
FillGraph(e, dorder, i, in_degree, graph) ==
    IF i > Len(dorder) THEN [tag |-> "Ok", in_degree |-> in_degree, graph |-> graph, arg |-> None]
    ELSE LET layer == dorder[i]
             deps == e.dependencies[layer]
         IN IF layer \notin DOMAIN in_degree
            THEN [tag |-> "Panic", in_degree |-> in_degree, graph |-> graph, arg |-> None]
            ELSE LET r == PushDependents(e, layer, deps, 1, graph)
                 IN IF r.tag = "Err"
                    THEN [tag |-> "Err", in_degree |-> in_degree, graph |-> graph, arg |-> r.arg]
                    ELSE FillGraph(e, dorder, i + 1,
                                   [in_degree EXCEPT ![layer] = Len(deps)], r.graph)

RECURSIVE ZeroDegree_unfiltered(_, _, _)
ZeroDegree_unfiltered(korder, in_degree, i) ==
    IF i > Len(korder) THEN <<>>
    ELSE <<korder[i]>> \o ZeroDegree_unfiltered(korder, in_degree, i + 1)

\* in_degree.iter().filter(|(_, deg)| **deg == 0).map(|(name, _)| name.clone()).collect()
RECURSIVE ZeroDegree(_, _, _)
ZeroDegree(korder, in_degree, i) ==
    IF i > Len(korder) THEN <<>>
    ELSE (IF in_degree[korder[i]] = 0 THEN <<korder[i]>> ELSE <<>>)
         \o ZeroDegree(korder, in_degree, i + 1)

\* for neighbor in neighbors { *deg -= 1; if *deg == 0 { queue.push(neighbor.clone()); } }
RECURSIVE Relax(_, _, _, _)
Relax(neighbors, j, in_degree, queue) ==
    IF j > Len(neighbors) THEN [in_degree |-> in_degree, queue |-> queue]
    ELSE LET n == neighbors[j]
             deg == in_degree[n] - 1
         IN Relax(neighbors, j + 1, [in_degree EXCEPT ![n] = deg],
                  IF deg = 0 THEN Append(queue, n) ELSE queue)

\* while let Some(node) = queue.pop() { result.push(node.clone()); ... }
RECURSIVE Drain(_, _, _, _)
Drain(queue, result, in_degree, graph) ==
    IF queue = <<>> THEN result
    ELSE LET node == queue[Len(queue)]
             rest == SubSeq(queue, 1, Len(queue) - 1)
             r == Relax(graph[node], 1, in_degree, rest)
         IN Drain(r.queue, Append(result, node), r.in_degree, graph)

\* result.retain(|name| name != init_name)
Retain(s, x) == SelectSeq(s, LAMBDA y : y # x)

MoveInitFirst_skipped(result, init_layer) == result

\* if let Some(init_name) = &self.init_layer { result.retain(..); result.insert(0, ..); }
MoveInitFirst(result, init_layer) ==
    IF init_layer # None THEN <<init_layer>> \o Retain(result, init_layer) ELSE result

topological_sort(e, korder, dorder) ==
    LET in_degree0 == [n \in DOMAIN e.layers |-> 0]
        graph0 == [n \in DOMAIN e.layers |-> <<>>]
        g == FillGraph(e, dorder, 1, in_degree0, graph0)
    IN IF g.tag = "Panic" THEN SortPanic
       ELSE IF g.tag = "Err" THEN SortErr("LayerNotFound", g.arg)
       ELSE LET queue == ZeroDegree(korder, g.in_degree, 1)
                result == Drain(queue, <<>>, g.in_degree, g.graph)
            IN IF Len(result) # Cardinality(DOMAIN e.layers)
               THEN SortErr("ConfigError", "Circular dependency detected in layers")
               ELSE SortOk(MoveInitFirst(result, e.init_layer))

(***************************************************************************)
(* The program: a builder is filled and built, the engine it returns may   *)
(* be changed through the public Engine methods, and a run starts by       *)
(* sorting the layers.                                                     *)
(***************************************************************************)
Init ==
    /\ builder = EngineBuilderNew
    /\ engine = EngineNew
    /\ ret = NoRet
    /\ sorted = NoSort
    /\ waves = <<>>
    /\ pc = "builder"
    /\ RunIdle

\* EngineBuilder::add_layer
AddLayer(n) ==
    /\ pc = "builder"
    /\ Len(builder.layers) < MaxLayers
    /\ builder' = [builder EXCEPT !.layers =
                       Append(@, Layer(n, 1 + Cardinality({i \in DOMAIN @ : @[i].name = n})))]
    /\ UNCHANGED <<engine, ret, sorted, waves, pc>>
    /\ UNCHANGED runvars

\* EngineBuilder::init_layer
InitLayer(n) ==
    /\ pc = "builder"
    /\ builder' = [builder EXCEPT !.init_layer = n]
    /\ UNCHANGED <<engine, ret, sorted, waves, pc>>
    /\ UNCHANGED runvars

\* EngineBuilder::dependency
Dependency(layer, depends_on) ==
    /\ pc = "builder"
    /\ NumDeps(builder.dependencies) < MaxDeps
    /\ builder' = [builder EXCEPT !.dependencies = PushEntry(@, layer, depends_on)]
    /\ UNCHANGED <<engine, ret, sorted, waves, pc>>
    /\ UNCHANGED runvars

\* EngineBuilder::build consumes the builder
Build ==
    /\ pc = "builder"
    /\ LET r == build(builder)
       IN /\ ret' = r.ret
          /\ engine' = r.engine
          /\ pc' = IF r.ret.tag = "Ok" THEN "engine" ELSE "build_failed"
    /\ builder' = EngineBuilderNew
    /\ UNCHANGED <<sorted, waves>>
    /\ UNCHANGED runvars

\* Engine::register_layer on the built engine, with one more Layer object named n
RegisterLayer(n) ==
    /\ pc = "engine"
    /\ LET r == register_layer(engine, Layer(n, IF n \in DOMAIN engine.layers THEN 2 ELSE 1))
       IN ret' = r.ret /\ engine' = r.engine
    /\ UNCHANGED <<builder, sorted, waves, pc>>
    /\ UNCHANGED runvars

\* Engine::set_init_layer on the built engine
SetInitLayer(n) ==
    /\ pc = "engine"
    /\ LET r == set_init_layer(engine, n)
       IN ret' = r.ret /\ engine' = r.engine
    /\ UNCHANGED <<builder, sorted, waves, pc>>
    /\ UNCHANGED runvars

\* Engine::add_dependency on the built engine
AddDependency(layer, depends_on) ==
    /\ pc = "engine"
    /\ NumDeps(engine.dependencies) < MaxDeps
    /\ LET r == add_dependency(engine, layer, depends_on)
       IN ret' = r.ret /\ engine' = r.engine
    /\ UNCHANGED <<builder, sorted, waves, pc>>
    /\ UNCHANGED runvars

\* Engine::run_silent / run_with_progress up to the match on topological_sort:
\* Ok(order) => order, Err(e) => panic!("Engine misconfigured: {}", e)
Sort ==
    /\ pc = "engine"
    /\ \E korder \in Perms(DOMAIN engine.layers), dorder \in Perms(DOMAIN engine.dependencies) :
          sorted' = topological_sort(engine, korder, dorder)
    /\ pc' = IF sorted'.tag = "Ok" THEN "sorted" ELSE "panicked"
    /\ UNCHANGED <<builder, engine, ret, waves>>
    /\ UNCHANGED runvars

Next ==
    \/ \E n \in Names : AddLayer(n)
    \/ \E n \in Names : InitLayer(n)
    \/ \E l, d \in Names : Dependency(l, d)
    \/ Build
    \/ \E n \in Names : RegisterLayer(n)
    \/ \E n \in Names : SetInitLayer(n)
    \/ \E l, d \in Names : AddDependency(l, d)
    \/ Sort

Spec == Init /\ [][Next]_vars

(***************************************************************************)
(* Slice (src/sandl/src/slice.rs): methods_per_layer maps a layer name to  *)
(* the map from the method names invoked on it to their arguments.         *)
(***************************************************************************)
Slice(name, methods_per_layer) == [name |-> name, methods_per_layer |-> methods_per_layer]

has_layer(slice, layer) == layer \in DOMAIN slice.methods_per_layer

\* Ok(methods.keys().collect()); the keys come in hash order, of which the
\* callers use no more than the set, so one enumeration stands for them
get_layer_methods(slice, layer) == SetToSeq(DOMAIN slice.methods_per_layer[layer])

(***************************************************************************)
(* Engine::compute_method_waves (src/sandl/src/engine.rs:86-137).          *)
(***************************************************************************)
WavesOk(w) == [tag |-> "Ok", kind |-> None, arg |-> None, waves |-> w]
WavesErr(kind, arg) == [tag |-> "Err", kind |-> kind, arg |-> arg, waves |-> <<>>]
NoWaves == [tag |-> None, kind |-> None, arg |-> None, waves |-> <<>>]

DepsSatisfied_ignored(e, layer_name, completed_layers) == TRUE

\* deps.map(|d| d.iter().all(|dep| completed_layers.contains(dep))).unwrap_or(true)
DepsSatisfied(e, layer_name, completed_layers) ==
    IF layer_name \in DOMAIN e.dependencies
    THEN \A j \in DOMAIN e.dependencies[layer_name] :
            e.dependencies[layer_name][j] \in completed_layers
    ELSE TRUE

LayerEntries_first_only(slice, layer_name) ==
    LET methods == get_layer_methods(slice, layer_name)
    IN IF methods = <<>> THEN <<>> ELSE << <<layer_name, methods[1]>> >>

\* for method_name in methods { current_wave.push((layer_name.clone(), method_name.to_string())); }
LayerEntries(slice, layer_name) ==
    LET methods == get_layer_methods(slice, layer_name)
    IN [j \in 1..Len(methods) |-> <<layer_name, methods[j]>>]

RECURSIVE CurrentWave_one_layer(_, _, _, _, _)
CurrentWave_one_layer(e, slice, layers, i, completed_layers) ==
    IF i > Len(layers) THEN <<>>
    ELSE IF DepsSatisfied(e, layers[i], completed_layers)
            /\ LayerEntries(slice, layers[i]) # <<>>
         THEN LayerEntries(slice, layers[i])
         ELSE CurrentWave_one_layer(e, slice, layers, i + 1, completed_layers)

\* for layer_name in &remaining_layers.clone() { ... if deps_satisfied { ... } }
RECURSIVE CurrentWave(_, _, _, _, _)
CurrentWave(e, slice, layers, i, completed_layers) ==
    IF i > Len(layers) THEN <<>>
    ELSE (IF DepsSatisfied(e, layers[i], completed_layers)
          THEN LayerEntries(slice, layers[i]) ELSE <<>>)
         \o CurrentWave(e, slice, layers, i + 1, completed_layers)

\* for layer in &wave_layers { remaining_layers.remove(layer); completed_layers.insert(..); }
Completed_forgotten(completed_layers, wave_layers) == completed_layers

Completed(completed_layers, wave_layers) == completed_layers \cup wave_layers

\* while !remaining_layers.is_empty() { ... }
RECURSIVE WaveLoop(_, _, _, _, _)
WaveLoop(e, slice, remaining_layers, completed_layers, w) ==
    IF remaining_layers = {} THEN WavesOk(w)
    ELSE LET current_wave == CurrentWave(e, slice, SetToSeq(remaining_layers), 1,
                                         completed_layers)
             wave_layers == {current_wave[j][1] : j \in DOMAIN current_wave}
         IN IF current_wave = <<>>
            THEN WavesErr("ConfigError", "Unable to compute method waves")
            ELSE WaveLoop(e, slice, remaining_layers \ wave_layers,
                          Completed(completed_layers, wave_layers),
                          Append(w, current_wave))

compute_method_waves(e, slice, execution_order) ==
    LET remaining_layers == {l \in Range(execution_order) : has_layer(slice, l)}
    IN WaveLoop(e, slice, remaining_layers, {}, <<>>)

(***************************************************************************)
(* Scheduling of a slice: an engine with registered layers, recorded       *)
(* dependencies and one slice starts a run; the layers are sorted and the  *)
(* waves of the slice are computed (Engine::execute_slice, line 156).      *)
(***************************************************************************)
SeqsUpTo(S, k) == UNION {[1..n -> S] : n \in 1..k}

\* the dependency maps Engine::add_dependency can record with at most k calls
DepMaps(k) ==
    UNION {{d \in [K -> SeqsUpTo(Names, k)] : NumDeps(d) <= k} : K \in SUBSET Names}

\* what a slice may hold for a layer: no method, one method, or both
MethodMaps == {[m \in ms |-> Null] : ms \in {{}, {"m1"}, Methods}}

\* the slices SliceBuilder can build over the layer names
Slices == UNION {{Slice("s1", mpl) : mpl \in [K -> MethodMaps]} : K \in SUBSET Names}

\* the registries: every name registered, or all but one
Registries == {[n \in L |-> Layer(n, 1)] : L \in {Names, Names \ {"C"}}}

InitWaves ==
    /\ builder = EngineBuilderNew
    /\ ret = Ok
    /\ sorted = NoSort
    /\ waves = <<NoWaves>>
    /\ pc = "engine"
    /\ RunIdle
    /\ \E layers \in Registries, d \in DepMaps(MaxWaveDeps), s \in Slices :
          engine = [layers |-> layers, dependencies |-> d,
                    init_layer |-> None, slices |-> <<s>>]

\* Engine::execute_slice up to `let waves = self.compute_method_waves(slice, execution_order)?`
ComputeWaves(i) ==
    /\ pc = "sorted"
    /\ waves[i] = NoWaves
    /\ waves' = [waves EXCEPT ![i] = compute_method_waves(engine, engine.slices[i], sorted.order)]
    /\ UNCHANGED <<builder, engine, ret, sorted, pc>>
    /\ UNCHANGED runvars

NextWaves ==
    \/ Sort
    \/ \E i \in DOMAIN engine.slices : ComputeWaves(i)

SpecWaves == InitWaves /\ [][NextWaves]_vars

(***************************************************************************)
(* Engine::compute_method_waves followed iteration by iteration            *)
(* (src/sandl/src/engine.rs:91-136).  The function is handed any order of  *)
(* the registered layers and any dependency map, cyclic ones included;     *)
(* `loop` holds its locals and the number of times the body of the while   *)
(* loop was entered.                                                       *)
(***************************************************************************)
\* cap on the iterations the model follows; above the number of layer names,
\* so that it stops no loop that removes a layer per iteration
MaxIterations == 4

Remove_nothing(remaining_layers, wave_layers) == remaining_layers

\* for layer in &wave_layers { remaining_layers.remove(layer); ... }
Remove(remaining_layers, wave_layers) == remaining_layers \ wave_layers

InitLoop ==
    /\ builder = EngineBuilderNew
    /\ ret = Ok
    /\ waves = <<NoWaves>>
    /\ pc = "sorted"
    /\ RunIdle
    /\ \E layers \in Registries, d \in DepMaps(MaxWaveDeps), s \in Slices :
          /\ engine = [layers |-> layers, dependencies |-> d,
                       init_layer |-> None, slices |-> <<s>>]
          /\ \E order \in Perms(DOMAIN layers) : sorted = SortOk(order)

\* lines 91-97: waves, remaining_layers and completed_layers are created
EnterLoop(i) ==
    /\ pc = "sorted"
    /\ waves[i] = NoWaves
    /\ loop.pc = None
    /\ loop' = [pc |-> "while",
                remaining_layers |-> {l \in Range(sorted.order) :
                                         has_layer(engine.slices[i], l)},
                completed_layers |-> {},
                waves |-> <<>>,
                iterations |-> 0]
    /\ UNCHANGED <<builder, engine, ret, sorted, waves, pc>>
    /\ UNCHANGED <<config, flags, batch, sl, ctx, results, observer, previous, query,
                   tracker, rwlock, tasks>>

\* lines 99-134: one pass through the body of the while loop; the layers of
\* remaining_layers.clone() come in hash order
Iterate(i) ==
    /\ loop.pc = "while"
    /\ loop.remaining_layers # {}
    /\ loop.iterations < MaxIterations
    /\ \E order \in Perms(loop.remaining_layers) :
          LET current_wave == CurrentWave(engine, engine.slices[i], order, 1,
                                          loop.completed_layers)
              wave_layers == {current_wave[j][1] : j \in DOMAIN current_wave}
          IN IF current_wave = <<>>
             THEN /\ loop' = [loop EXCEPT !.pc = "returned", !.iterations = @ + 1]
                  /\ waves' = [waves EXCEPT
                                 ![i] = WavesErr("ConfigError",
                                                 "Unable to compute method waves")]
             ELSE /\ loop' = [loop EXCEPT
                                !.remaining_layers = Remove(@, wave_layers),
                                !.completed_layers = Completed(@, wave_layers),
                                !.waves = Append(@, current_wave),
                                !.iterations = @ + 1]
                  /\ UNCHANGED waves
    /\ UNCHANGED <<builder, engine, ret, sorted, pc>>
    /\ UNCHANGED <<config, flags, batch, sl, ctx, results, observer, previous, query,
                   tracker, rwlock, tasks>>

\* lines 99 and 136: remaining_layers is empty, Ok(waves)
LeaveLoop(i) ==
    /\ loop.pc = "while"
    /\ loop.remaining_layers = {}
    /\ loop' = [loop EXCEPT !.pc = "returned"]
    /\ waves' = [waves EXCEPT ![i] = WavesOk(loop.waves)]
    /\ UNCHANGED <<builder, engine, ret, sorted, pc>>
    /\ UNCHANGED <<config, flags, batch, sl, ctx, results, observer, previous, query,
                   tracker, rwlock, tasks>>

NextLoop ==
    \/ \E i \in DOMAIN engine.slices : EnterLoop(i)
    \/ \E i \in DOMAIN engine.slices : Iterate(i)
    \/ \E i \in DOMAIN engine.slices : LeaveLoop(i)

\* the call runs on one thread, which keeps taking steps until it returns
SpecLoop == InitLoop /\ [][NextLoop]_vars /\ WF_vars(NextLoop)

(***************************************************************************)
(* Part 3: a run (Engine::run with RunFlags.silent, Engine::run_silent):   *)
(* batches, chunks, Engine::execute_slice, Engine::execute_method, the     *)
(* argument resolution and the per-slice Context.                          *)
(***************************************************************************)
\* longest Engine.slices vector of a run whose batches are followed
MaxSlices == 3
\* largest EngineConfig.batch_size given to EngineConfig::batch_size
MaxBatch == 3
\* largest EngineConfig.chunk_size given to EngineConfig::chunk_size
MaxChunk == 2
\* largest number of Engine::run calls on one engine
MaxRuns == 2
\* deepest nesting of Error::with_context
MaxWraps == 2

\* Option<T> of the configuration values: the empty set is None, {x} is Some(x)
Some(x) == {x}
Unwrap(o) == CHOOSE x \in o : TRUE

\* EngineConfig::new
EngineConfigNew == [batch_size |-> {}, chunk_size |-> 1]

\* EngineConfig::batch_size
batch_size(c, size) == [c EXCEPT !.batch_size = Some(size)]

\* EngineConfig::chunk_size
chunk_size(c, size) == [c EXCEPT !.chunk_size = IF size > 1 THEN size ELSE 1]

\* RunFlags::SILENT and RunFlags::SILENT_NO_OBSERVER
SILENT == [silent |-> TRUE, with_observer |-> TRUE]
SILENT_NO_OBSERVER == [silent |-> TRUE, with_observer |-> FALSE]

\* RunFlags::TRACKED (RunFlags::new, RunFlags::default)
TRACKED == [silent |-> FALSE, with_observer |-> TRUE]

\* RunFlags { silent: false, with_observer: false }: both fields are public
PROGRESS_NO_OBSERVER == [silent |-> FALSE, with_observer |-> FALSE]

(***************************************************************************)
(* ProgressTracker (src/sandl/src/tracker.rs).  completed and failed are   *)
(* AtomicUsize: fetch_add and load are one step each.  The instants are    *)
(* not modelled: whether 50 ms have passed is an input of the decision.    *)
(***************************************************************************)
\* ProgressTracker::new
ProgressTrackerNew(total) ==
    [total |-> total, completed |-> 0, failed |-> 0, header |-> FALSE,
     locals |-> [i \in 1..total |-> [completed |-> 0]], lines |-> <<>>, summary |-> FALSE]

\* ProgressTracker::print_header
print_header(t) == [t EXCEPT !.header = TRUE]

\* self.completed.fetch_add(1, Ordering::SeqCst) in increment_completed
increment_completed(t) == [t EXCEPT !.completed = @ + 1]

\* self.failed.fetch_add(1, Ordering::SeqCst) in increment_failed
increment_failed(t) == [t EXCEPT !.failed = @ + 1]

\* (self.total / 100).max(1)
OnePercent(t) == IF t.total \div 100 > 1 THEN t.total \div 100 ELSE 1

\* the decision of maybe_print_progress once completed and failed are loaded:
\* print on completion, or when 50 ms have passed, or at another 1%
should_print(t, total_done, elapsed) ==
    \/ total_done = t.total
    \/ elapsed
    \/ (total_done > 0 /\ total_done % OnePercent(t) = 0)

\* the line of force_print_progress; a new line ends it when everything is done
ProgressLine(t, completed, failed) ==
    [total_done |-> completed + failed, total |-> t.total, completed |-> completed,
     failed |-> failed, newline |-> (completed + failed = t.total)]

\* ProgressTracker::print_summary
print_summary(t) == [t EXCEPT !.summary = TRUE]

(***************************************************************************)
(* Value, Result<Value> and the Error values a method result can hold.     *)
(***************************************************************************)
Num(n) == [kind |-> "Number", n |-> n]
Object(f) == [kind |-> "Object", fields |-> f]

\* Value::is_null
is_null(v) == v.kind = "Null"

ValueOk(v) == [tag |-> "Ok", value |-> v]
ValueErr(e) == [tag |-> "Err", error |-> e]

ErrorLayerAlreadyExists(layer) == [kind |-> "LayerAlreadyExists", layer |-> layer]
ErrorLayerNotFound(layer) == [kind |-> "LayerNotFound", layer |-> layer]
ErrorMethodNotFound(method, layer) == [kind |-> "MethodNotFound", method |-> method, layer |-> layer]
ErrorMethodNotBound(method, layer) == [kind |-> "MethodNotBound", method |-> method, layer |-> layer]
ErrorExecutionError(msg) == [kind |-> "ExecutionError", msg |-> msg]
ErrorConfigError(msg) == [kind |-> "ConfigError", msg |-> msg]

\* Error::with_context
with_context(e, slice, layer, method, args) ==
    [kind |-> "MethodExecutionFailed", slice |-> slice, layer |-> layer,
     method |-> method, args |-> args, cause |-> e]

\* Error::is_execution_error
is_execution_error(e) == e.kind = "MethodExecutionFailed"

\* Display: the #[error(...)] texts of the Error enum
to_string(e) ==
    IF e.kind = "LayerNotFound" THEN "Layer '" \o e.layer \o "' not found"
    ELSE IF e.kind = "LayerAlreadyExists" THEN "Layer '" \o e.layer \o "' already exists"
    ELSE IF e.kind = "MethodNotFound"
         THEN "Method '" \o e.method \o "' not found in layer '" \o e.layer \o "'"
    ELSE IF e.kind = "MethodNotBound"
         THEN "Method '" \o e.method \o "' has not been bound in layer '" \o e.layer \o "'"
    ELSE IF e.kind = "MethodExecutionFailed"
         THEN "Method execution failed in slice '" \o e.slice \o "', layer '" \o e.layer
              \o "', method '" \o e.method \o "'"
    ELSE IF e.kind = "ExecutionError" THEN "Execution error: " \o e.msg
    ELSE "Configuration error: " \o e.msg

RECURSIVE root_cause(_)
\* an unwrapping that stops below the outermost context
root_cause_one_level(e) == IF e.kind = "MethodExecutionFailed" THEN e.cause ELSE e

\* Error::root_cause
root_cause(e) == IF e.kind = "MethodExecutionFailed" THEN root_cause(e.cause) ELSE e

\* Error::execution_context: Option<(slice, layer, method, args)>
execution_context(e) ==
    IF e.kind = "MethodExecutionFailed" THEN Some(<<e.slice, e.layer, e.method, e.args>>)
    ELSE {}

\* Error::message
RECURSIVE message(_)
message(e) ==
    IF e.kind = "MethodExecutionFailed" THEN message(e.cause)
    ELSE IF e.kind = "ExecutionError" THEN e.msg
    ELSE to_string(e)

(***************************************************************************)
(* FromValue (src/sandl/src/traits.rs) for the argument types of the bound *)
(* methods: Value accepts every value, i64 accepts numbers only.           *)
(***************************************************************************)
ArgTypes == {"Value", "i64"}

from_value(A, value) ==
    IF A = "Value" THEN ValueOk(value)
    ELSE IF value.kind = "Number" THEN ValueOk(value)
    ELSE ValueErr(ErrorConfigError("Expected i64"))

(***************************************************************************)
(* Layer::builder: a method is declared with MethodBuilderArgsStep::args   *)
(* or args_with_default, then bound.  A bound function is described by the *)
(* argument type A of its closure and by what the closure does: it fails   *)
(* or succeeds, gets the Context keys `reads` when it starts and sets the  *)
(* Context key `key` before it returns a value.                            *)
(***************************************************************************)
BoundFn(A, fails, key, reads) ==
    [A |-> A, fails |-> fails, key |-> key, reads |-> reads,
     error |-> ErrorExecutionError("failed")]

\* a closure that returns Err(error)
BoundFnErr(A, error, key, reads) ==
    [A |-> A, fails |-> TRUE, key |-> key, reads |-> reads, error |-> error]

\* MethodBuilderArgsStep::args followed by MethodBuilderBindStep::bind
MethodArgs(name, f) == [name |-> name, default_args |-> Null, func |-> Some(f)]

\* MethodBuilderArgsStep::args_with_default followed by MethodBuilderBindStep::bind
MethodArgsWithDefault(name, default, f) == [name |-> name, default_args |-> default, func |-> Some(f)]

\* a build that records no default for a method whose default_args is null
LayerBuilderBuild_without_null(name, methods) ==
    [name |-> name, id |-> 1,
     methods_to_defaults |-> [m \in {d.name : d \in {x \in methods : ~is_null(x.default_args)}} |->
                                 (CHOOSE d \in methods : d.name = m).default_args],
     binds |-> [m \in {d.name : d \in {x \in methods : x.func # {}}} |->
                   Unwrap((CHOOSE d \in methods : d.name = m).func)]]

\* LayerBuilder::build over the declared methods; every MethodBuilder holds a
\* default_args value and LayerBuilder::build inserts it
LayerBuilderBuild(name, methods) ==
    [name |-> name, id |-> 1,
     methods_to_defaults |-> [m \in {d.name : d \in methods} |->
                                 (CHOOSE d \in methods : d.name = m).default_args],
     binds |-> [m \in {d.name : d \in {x \in methods : x.func # {}}} |->
                   Unwrap((CHOOSE d \in methods : d.name = m).func)]]

\* Layer::get_default_args
get_default_args(layer, method) ==
    IF method \in DOMAIN layer.methods_to_defaults
    THEN Some(layer.methods_to_defaults[method]) ELSE {}

\* the outcome of a call that reaches, or does not reach, the bound function
NotInvoked(e) == [invoked |-> FALSE, error |-> e]
Invoked(func, a) == [invoked |-> TRUE, func |-> func, args |-> a]

\* Layer::execute
execute(layer, method_name, a) ==
    IF method_name \notin DOMAIN layer.binds
    THEN NotInvoked(ErrorMethodNotBound(method_name, layer.name))
    ELSE Invoked(layer.binds[method_name], a)

\* a call that hands null to the bound function instead of the default
execute_with_default_null(layer, method_name) ==
    IF method_name \notin DOMAIN layer.binds
    THEN NotInvoked(ErrorMethodNotBound(method_name, layer.name))
    ELSE Invoked(layer.binds[method_name], Null)

\* Layer::execute_with_default
execute_with_default(layer, method_name) ==
    IF method_name \notin DOMAIN layer.binds
    THEN NotInvoked(ErrorMethodNotBound(method_name, layer.name))
    ELSE LET d == get_default_args(layer, method_name)
         IN IF d = {}
            THEN NotInvoked(ErrorConfigError("method with no defaults called with null"))
            ELSE Invoked(layer.binds[method_name], Unwrap(d))

\* Slice::get_method_arg
get_method_arg(slice, layer, method) ==
    IF layer \notin DOMAIN slice.methods_per_layer THEN ValueErr(ErrorLayerNotFound(layer))
    ELSE IF method \notin DOMAIN slice.methods_per_layer[layer]
         THEN ValueErr(ErrorMethodNotFound(method, layer))
         ELSE ValueOk(slice.methods_per_layer[layer][method])

\* a merge in which the default wins over the slice's value
merge_args_defaults_win(defaults, overrides) ==
    IF defaults.kind = "Object" /\ overrides.kind = "Object"
    THEN Object([k \in DOMAIN defaults.fields \cup DOMAIN overrides.fields |->
                    IF k \in DOMAIN defaults.fields THEN defaults.fields[k]
                    ELSE overrides.fields[k]])
    ELSE IF is_null(overrides) THEN defaults
    ELSE overrides

\* Engine::merge_args
merge_args(defaults, overrides) ==
    IF defaults.kind = "Object" /\ overrides.kind = "Object"
    THEN Object([k \in DOMAIN defaults.fields \cup DOMAIN overrides.fields |->
                    IF k \in DOMAIN overrides.fields THEN overrides.fields[k]
                    ELSE defaults.fields[k]])
    ELSE IF is_null(overrides) THEN defaults
    ELSE overrides

\* Engine::execute_method up to the call of the bound function
execute_method(e, slice, layer_name, method_name) ==
    IF layer_name \notin DOMAIN e.layers THEN NotInvoked(ErrorLayerNotFound(layer_name))
    ELSE LET layer == e.layers[layer_name]
             slice_args == get_method_arg(slice, layer_name, method_name)
         IN IF slice_args.tag = "Err" THEN NotInvoked(slice_args.error)
            ELSE IF is_null(slice_args.value) THEN execute_with_default(layer, method_name)
            ELSE LET d == get_default_args(layer, method_name)
                     merged_args == IF d # {} THEN merge_args(Unwrap(d), slice_args.value)
                                    ELSE slice_args.value
                 IN execute(layer, method_name, merged_args)

(***************************************************************************)
(* Context (src/sandl/src/context.rs): a store from keys to values.  An    *)
(* entry also remembers which slice execution and which pair set it.       *)
(***************************************************************************)
\* Context::new
ContextNew == EmptyMap

\* Context::set
ContextSet(store, key, entry) ==
    [k \in DOMAIN store \cup {key} |-> IF k = key THEN entry ELSE store[k]]

\* Context::get
ContextGet(store, key) == IF key \in DOMAIN store THEN Some(store[key]) ELSE {}

\* a store that keeps what an earlier run left in it
FreshContext_kept(store) == store

\* `let context = Context::new();` in Engine::execute_slice: whatever an
\* earlier call of execute_slice held, the call starts from an empty store
FreshContext(store) == ContextNew

\* one store for every slice of the run
ContextOf_shared(i) == CHOOSE j \in DOMAIN ctx : \A k \in DOMAIN ctx : j <= k

\* `let context = Context::new();` in Engine::execute_slice: the store of the
\* i-th slice execution
ContextOf(i) == i

(***************************************************************************)
(* The bound function of MethodBuilderBindStep::bind:                      *)
(*     let typed_args = A::from_value(args)?; f(&typed_args, context)      *)
(* It starts (decodes its argument and gets from the Context) and later    *)
(* returns (sets its key and yields its result).                           *)
(***************************************************************************)
\* the call at the moment the method starts
Begin(call, store) ==
    IF ~call.invoked
    THEN [call |-> call, typed |-> ValueErr(call.error), seen |-> EmptyMap]
    ELSE LET t == from_value(call.func.A, call.args)
         IN [call |-> call, typed |-> t,
             seen |-> IF t.tag = "Ok"
                      THEN [k \in call.func.reads \cap DOMAIN store |-> store[k]]
                      ELSE EmptyMap]

\* the closure given to bind was entered
ClosureRan(inv) == inv.call.invoked /\ inv.typed.tag = "Ok"

\* the Result<Value> of Engine::execute_method
Outcome(inv) ==
    IF ~inv.call.invoked THEN ValueErr(inv.call.error)
    ELSE IF inv.typed.tag = "Err" THEN inv.typed
    ELSE IF inv.call.func.fails THEN ValueErr(inv.call.func.error)
    ELSE ValueOk([arg |-> inv.typed.value,
                  read |-> [k \in inv.call.func.reads |->
                               {x.value : x \in ContextGet(inv.seen, k)}]])

\* a method whose Context::set is lost
StoreAfter_lost(inv, store, i, pair) == store

\* the store once the method has returned
StoreAfter(inv, store, i, pair) ==
    IF ClosureRan(inv) /\ ~inv.call.func.fails /\ inv.call.func.key # None
    THEN ContextSet(store, inv.call.func.key,
                    [value |-> inv.typed.value, slice |-> i, pair |-> pair])
    ELSE store

\* a map_err that attaches the context to every error
Observed_always_wrap(slice, layer_name, method_name, result) ==
    IF result.tag = "Err"
    THEN LET a == get_method_arg(slice, layer_name, method_name)
         IN ValueErr(with_context(result.error, slice.name, layer_name, method_name,
                                  IF a.tag = "Ok" THEN a.value ELSE Null))
    ELSE result

\* Engine::observe_execute_method: result.map_err(...)
Observed(slice, layer_name, method_name, result) ==
    IF result.tag = "Err" /\ ~is_execution_error(result.error)
    THEN LET a == get_method_arg(slice, layer_name, method_name)
         IN ValueErr(with_context(result.error, slice.name, layer_name, method_name,
                                  IF a.tag = "Ok" THEN a.value ELSE Null))
    ELSE result

\* the result Engine::execute_slice stores for the pair
PairResult(slice, pair, inv, use_observer) ==
    IF use_observer THEN Observed(slice, pair[1], pair[2], Outcome(inv)) ELSE Outcome(inv)

(***************************************************************************)
(* The events of src/sandl/src/events.rs.  Durations are not modelled.     *)
(***************************************************************************)
\* EngineEvent
SliceStart(slice) == [event |-> "SliceStart", slice |-> slice]
SliceComplete(slice) == [event |-> "SliceComplete", slice |-> slice]
MethodStart(slice, layer, method) ==
    [event |-> "MethodStart", slice |-> slice, layer |-> layer, method |-> method]
MethodComplete(slice, layer, method) ==
    [event |-> "MethodComplete", slice |-> slice, layer |-> layer, method |-> method]
MethodFailed(slice, layer, method, error) ==
    [event |-> "MethodFailed", slice |-> slice, layer |-> layer, method |-> method,
     error |-> error]

\* Observer::on_event with a callback that pushes the event it is given to a
\* shared vector (tests/observer.rs)
on_event(o, callback) == [o EXCEPT !.callbacks = Append(@, callback)]

\* an emission the callbacks collect ahead of the earlier ones
emit_front(o, event) == [o EXCEPT !.events = [j \in DOMAIN o.callbacks |-> event] \o @]

\* Observer::emit: every callback is called with the event
emit(o, event) == [o EXCEPT !.events = @ \o [j \in DOMAIN o.callbacks |-> event]]

\* an engine that emits whatever the flag says
EmitIf_always(use_observer, o, event) == emit(o, event)

\* `if use_observer { self.observer.emit(..) }`
EmitIf(use_observer, o, event) == IF use_observer THEN emit(o, event) ELSE o

\* a terminal event that reports every result as a completion
MethodEnd_always_complete(slice, layer, method, result) ==
    MethodComplete(slice, layer, method)

\* the terminal event of Engine::observe_execute_method: `match &result`
MethodEnd(slice, layer, method, result) ==
    IF result.tag = "Ok" THEN MethodComplete(slice, layer, method)
    ELSE MethodFailed(slice, layer, method, to_string(result.error))

(***************************************************************************)
(* Engine::execute_slice, one call per slice.                              *)
(***************************************************************************)
\* Result<SliceResults>
SliceOk(method_results) == [tag |-> "Ok", method_results |-> method_results]
SliceErr(e) == [tag |-> "Err", error |-> e]
NoResult == [tag |-> None]

\* a failed wave computation that yields an empty success
WaveFailure_swallowed(w) == SliceOk(EmptyMap)

\* `self.compute_method_waves(slice, execution_order)?` on Err: the error is
\* what execute_slice returns
WaveFailure(w) == SliceErr([kind |-> w.kind, msg |-> w.arg])

\* a call of execute_slice that has not started: no wave, no pair running, no
\* result collected, no bound function reached; `invocations` counts, per pair,
\* the times its bound function was entered
SlicePending ==
    [pc |-> "pending", wave |-> 0, running |-> EmptyMap, wave_results |-> EmptyMap,
     results |-> EmptyMap, calls |-> EmptyMap, invocations |-> EmptyMap, ret |-> NoResult]

\* a collection that keeps the successes only
AddResults_ok_only(method_results, wave_results) ==
    [p \in DOMAIN method_results \cup {q \in DOMAIN wave_results : wave_results[q].tag = "Ok"} |->
        IF p \in DOMAIN wave_results THEN wave_results[p] ELSE method_results[p]]

\* SliceResults::add_result over the wave's results
AddResults(method_results, wave_results) ==
    [p \in DOMAIN method_results \cup DOMAIN wave_results |->
        IF p \in DOMAIN wave_results THEN wave_results[p] ELSE method_results[p]]

\* the pairs of the wave the slice is at
WavePairs(i) ==
    IF sl[i].wave \in DOMAIN waves[i].waves THEN Range(waves[i].waves[sl[i].wave]) ELSE {}

\* slices.par_chunks(chunk_size): the slices of one chunk run one after the
\* other, in the order of the chunk; with chunk_size <= 1 every slice is a
\* parallel task of its own
ChunkStart(i) ==
    IF config.chunk_size > 1
    THEN batch.lo + ((i - batch.lo) \div config.chunk_size) * config.chunk_size
    ELSE i

ChunkTurn(i) == \A j \in ChunkStart(i)..(i - 1) : sl[j].pc = "returned"

\* self.slices.chunks(batch_size): the end of the batch that starts at lo
BatchEnd(lo) ==
    LET n == Len(engine.slices)
    IN IF config.batch_size = {} THEN n
       ELSE IF lo + Unwrap(config.batch_size) - 1 < n
            THEN lo + Unwrap(config.batch_size) - 1 ELSE n

\* an extend that forgets what the earlier batches returned
Extend_replace(all_results, lo, hi) ==
    [name \in {engine.slices[i].name : i \in lo..hi} |->
        sl[CHOOSE i \in lo..hi : engine.slices[i].name = name
                                 /\ \A j \in (i + 1)..hi : engine.slices[j].name # name].ret]

\* all_results.extend(batch_results): the batch's (slice_name, result) pairs
\* are collected in slice order into a map, a later slice replacing an earlier
\* one of the same name
Extend(all_results, lo, hi) ==
    LET names == {engine.slices[i].name : i \in lo..hi}
        last(name) == CHOOSE i \in lo..hi : engine.slices[i].name = name
                                 /\ \A j \in (i + 1)..hi : engine.slices[j].name # name
    IN [name \in DOMAIN all_results \cup names |->
           IF name \in names THEN sl[last(name)].ret ELSE all_results[name]]

\* what the task of a slice does once execute_slice has returned: in
\* execute_batch_with_progress, `if use_observer { .. tracker.increment_.. }`
AfterExecute == IF ~flags.silent /\ flags.with_observer THEN "executed" ELSE "returned"

\* Engine::run: run_silent or run_with_progress once the layers are sorted, up
\* to the first batch
StartRun ==
    /\ pc = "sorted"
    /\ tracker' = IF flags.silent THEN tracker
                  ELSE LET t == print_header(ProgressTrackerNew(Len(engine.slices)))
                       IN \* no batch at all: tracker.print_summary(&results) follows
                          IF config.batch_size \notin {{}, {0}} /\ Len(engine.slices) = 0
                          THEN print_summary(t) ELSE t
    /\ IF config.batch_size = {0}
       THEN \* self.slices.chunks(0) panics
            /\ pc' = "run_panicked"
            /\ UNCHANGED <<batch, sl, ctx, waves>>
       ELSE IF config.batch_size # {} /\ Len(engine.slices) = 0
       THEN /\ pc' = "done"
            /\ UNCHANGED <<batch, sl, ctx, waves>>
       ELSE /\ pc' = "batch"
            /\ batch' = [lo |-> 1, hi |-> BatchEnd(1)]
            /\ sl' = [i \in DOMAIN engine.slices |-> SlicePending]
            \* the stores are created by execute_slice (StartSlice)
            /\ ctx' = [i \in DOMAIN engine.slices |->
                          IF i \in DOMAIN ctx THEN ctx[i] ELSE ContextNew]
            /\ waves' = [i \in DOMAIN engine.slices |-> NoWaves]
    /\ results' = EmptyMap
    /\ UNCHANGED <<builder, engine, ret, sorted, config, flags, observer, previous, query,
                   loop, rwlock, tasks>>

\* Engine::execute_slice up to the first wave
StartSlice(i) ==
    /\ pc = "batch"
    /\ i \in batch.lo..batch.hi
    /\ sl[i].pc = "pending"
    /\ ChunkTurn(i)
    /\ LET w == compute_method_waves(engine, engine.slices[i], sorted.order)
       IN /\ waves' = [waves EXCEPT ![i] = w]
          /\ IF w.tag = "Err"
             THEN /\ sl' = [sl EXCEPT ![i].pc = AfterExecute,
                                      ![i].ret = WaveFailure(w)]
                  /\ ctx' = ctx
             ELSE /\ sl' = [sl EXCEPT ![i].pc = "running", ![i].wave = 1]
                  /\ ctx' = [ctx EXCEPT ![ContextOf(i)] = FreshContext(@)]
    /\ observer' = EmitIf(flags.with_observer, observer, SliceStart(engine.slices[i].name))
    /\ UNCHANGED <<builder, engine, ret, sorted, pc, config, flags, batch, results, previous, query,
                   tracker, loop, rwlock, tasks>>

\* a parallel task of the wave starts: Engine::execute_method reaches the
\* bound function, or fails before it
StartMethod(i, pair) ==
    /\ pc = "batch"
    /\ sl[i].pc = "running"
    /\ pair \in WavePairs(i)
    /\ pair \notin DOMAIN sl[i].running \cup DOMAIN sl[i].wave_results
    /\ LET inv == Begin(execute_method(engine, engine.slices[i], pair[1], pair[2]),
                        ctx[ContextOf(i)])
       IN sl' = [sl EXCEPT ![i].running = (pair :> inv) @@ @,
                           ![i].calls = (pair :> inv) @@ @,
                           ![i].invocations =
                               IF ~inv.call.invoked THEN @
                               ELSE (pair :> (IF pair \in DOMAIN @ THEN @[pair] + 1 ELSE 1))
                                    @@ @]
    /\ observer' = EmitIf(flags.with_observer, observer,
                          MethodStart(engine.slices[i].name, pair[1], pair[2]))
    /\ UNCHANGED <<builder, engine, ret, sorted, waves, pc, config, flags, batch, ctx, results,
                   previous, query,
                   tracker, loop, rwlock, tasks>>

\* the task returns its ((layer, method), result)
FinishMethod(i, pair) ==
    /\ pc = "batch"
    /\ sl[i].pc = "running"
    /\ pair \in DOMAIN sl[i].running
    /\ LET inv == sl[i].running[pair]
           result == PairResult(engine.slices[i], pair, inv, flags.with_observer)
       IN /\ sl' = [sl EXCEPT
                       ![i].running = [p \in DOMAIN @ \ {pair} |-> @[p]],
                       ![i].wave_results = (pair :> result) @@ @]
          /\ ctx' = [ctx EXCEPT ![ContextOf(i)] = StoreAfter(inv, @, i, pair)]
          /\ observer' = EmitIf(flags.with_observer, observer,
                                MethodEnd(engine.slices[i].name, pair[1], pair[2], result))
    /\ UNCHANGED <<builder, engine, ret, sorted, waves, pc, config, flags, batch, results,
                   previous, query,
                   tracker, loop, rwlock, tasks>>

\* a loop that leaves at the first wave holding a failure
NextWave_abort(i) ==
    IF \E p \in DOMAIN sl[i].wave_results : sl[i].wave_results[p].tag = "Err"
    THEN Len(waves[i].waves) + 1 ELSE sl[i].wave + 1

\* a loop that runs the tasks of the same wave again
NextWave_again(i) == sl[i].wave

\* `for wave in waves`: the wave after the current one, whatever its results
NextWave(i) == sl[i].wave + 1

\* a join that does not wait for the tasks still running
WaveJoined_early(i) == WavePairs(i) \subseteq DOMAIN sl[i].wave_results \cup DOMAIN sl[i].running

\* wave.par_iter().map(...).collect() has every result of the wave
WaveJoined(i) == WavePairs(i) \subseteq DOMAIN sl[i].wave_results

\* the end of one iteration of `for wave in waves`: the results of the wave
\* are added to the slice's results
JoinWave(i) ==
    /\ pc = "batch"
    /\ sl[i].pc = "running"
    /\ sl[i].wave \in DOMAIN waves[i].waves
    /\ WaveJoined(i)
    /\ sl' = [sl EXCEPT ![i].results = AddResults(@, sl[i].wave_results),
                        ![i].wave_results = EmptyMap,
                        ![i].wave = NextWave(i)]
    /\ UNCHANGED <<builder, engine, ret, sorted, waves, pc, config, flags, batch, ctx, results, observer, previous, query,
                   tracker, loop, rwlock, tasks>>

\* Engine::execute_slice returns Ok(results)
FinishSlice(i) ==
    /\ pc = "batch"
    /\ sl[i].pc = "running"
    /\ sl[i].wave > Len(waves[i].waves)
    /\ sl' = [sl EXCEPT ![i].pc = AfterExecute, ![i].ret = SliceOk(sl[i].results)]
    /\ observer' = EmitIf(flags.with_observer, observer, SliceComplete(engine.slices[i].name))
    /\ UNCHANGED <<builder, engine, ret, sorted, waves, pc, config, flags, batch, ctx, results,
                   previous, query,
                   tracker, loop, rwlock, tasks>>

\* a batch that starts while slices of the previous one are still running
BatchJoined_early == \A i \in batch.lo..batch.hi : sl[i].pc # "pending"

\* Engine::execute_batch_silent has collected the result of every slice
BatchJoined == \A i \in batch.lo..batch.hi : sl[i].pc = "returned"

\* Engine::execute_batch_silent / execute_batch_with_progress returns; the next
\* batch starts, or the run returns RunResults::from(intermediary), after
\* tracker.print_summary(&results) in run_with_progress
FinishBatch ==
    /\ pc = "batch"
    /\ BatchJoined
    /\ results' = Extend(results, batch.lo, batch.hi)
    /\ IF batch.hi < Len(engine.slices)
       THEN /\ batch' = [lo |-> batch.hi + 1, hi |-> BatchEnd(batch.hi + 1)]
            /\ pc' = pc
            /\ tracker' = tracker
       ELSE /\ batch' = batch
            /\ pc' = "done"
            /\ tracker' = IF flags.silent THEN tracker ELSE print_summary(tracker)
    /\ UNCHANGED <<builder, engine, ret, sorted, waves, config, flags, sl, ctx, observer, previous, query,
                   loop, rwlock, tasks>>

(***************************************************************************)
(* The progress update of a slice's task in execute_batch_with_progress,   *)
(* after execute_slice has returned: increment_completed or                *)
(* increment_failed, then maybe_print_progress.                            *)
(***************************************************************************)
\* match &result { Ok(_) => tracker.increment_completed(), Err(_) =>
\* tracker.increment_failed() }: the fetch_add
Increment(i) ==
    /\ pc = "batch"
    /\ sl[i].pc = "executed"
    /\ tracker' = IF sl[i].ret.tag = "Ok" THEN increment_completed(tracker)
                  ELSE increment_failed(tracker)
    /\ sl' = [sl EXCEPT ![i].pc = "counted"]
    /\ UNCHANGED <<builder, engine, ret, sorted, waves, pc, config, flags, batch, ctx, results,
                   observer, previous, query, loop, rwlock, tasks>>

\* `let completed = self.completed.load(Ordering::SeqCst);` of
\* maybe_print_progress and of force_print_progress
LoadCompleted(i) ==
    /\ pc = "batch"
    /\ sl[i].pc \in {"counted", "printing"}
    /\ tracker' = [tracker EXCEPT !.locals[i].completed = tracker.completed]
    /\ sl' = [sl EXCEPT ![i].pc = IF @ = "counted" THEN "deciding" ELSE "loaded"]
    /\ UNCHANGED <<builder, engine, ret, sorted, waves, pc, config, flags, batch, ctx, results,
                   observer, previous, query, loop, rwlock, tasks>>

\* maybe_print_progress from `let failed = self.failed.load(..)` on: the
\* decision to call force_print_progress
MaybePrint(i) ==
    /\ pc = "batch"
    /\ sl[i].pc = "deciding"
    /\ \E elapsed \in BOOLEAN :
          LET total_done == tracker.locals[i].completed + tracker.failed
          IN sl' = [sl EXCEPT ![i].pc = IF should_print(tracker, total_done, elapsed)
                                        THEN "printing" ELSE "returned"]
    /\ UNCHANGED <<builder, engine, ret, sorted, waves, pc, config, flags, batch, ctx, results,
                   observer, previous, query, tracker, loop, rwlock, tasks>>

\* force_print_progress from `let failed = self.failed.load(..)` on: the line
\* is printed, and the task of the slice returns
ForcePrint(i) ==
    /\ pc = "batch"
    /\ sl[i].pc = "loaded"
    /\ tracker' = [tracker EXCEPT !.lines =
                       Append(@, ProgressLine(tracker, tracker.locals[i].completed,
                                              tracker.failed))]
    /\ sl' = [sl EXCEPT ![i].pc = "returned"]
    /\ UNCHANGED <<builder, engine, ret, sorted, waves, pc, config, flags, batch, ctx, results,
                   observer, previous, query, loop, rwlock, tasks>>

NextRun ==
    \/ Sort
    \/ StartRun
    \/ \E i \in DOMAIN sl : StartSlice(i)
    \/ \E i \in DOMAIN sl : \E pair \in WavePairs(i) : StartMethod(i, pair)
    \/ \E i \in DOMAIN sl : \E pair \in DOMAIN sl[i].running : FinishMethod(i, pair)
    \/ \E i \in DOMAIN sl : JoinWave(i)
    \/ \E i \in DOMAIN sl : FinishSlice(i)
    \/ FinishBatch

(***************************************************************************)
(* The unbatched, unchunked run with one task at a time: the slices in     *)
(* registration order, the pairs of a wave in the order of the wave.       *)
(***************************************************************************)
RECURSIVE SequentialWave(_, _, _, _, _, _)
SequentialWave(e, slice, wave, j, store, use_observer) ==
    IF j > Len(wave) THEN [store |-> store, wave_results |-> EmptyMap]
    ELSE LET inv == Begin(execute_method(e, slice, wave[j][1], wave[j][2]), store)
             rest == SequentialWave(e, slice, wave, j + 1,
                                    StoreAfter(inv, store, 0, wave[j]), use_observer)
         IN [store |-> rest.store,
             wave_results |-> rest.wave_results
                              @@ (wave[j] :> PairResult(slice, wave[j], inv, use_observer))]

RECURSIVE SequentialWaves(_, _, _, _, _, _, _)
SequentialWaves(e, slice, w, k, store, method_results, use_observer) ==
    IF k > Len(w) THEN method_results
    ELSE LET r == SequentialWave(e, slice, w[k], 1, store, use_observer)
         IN SequentialWaves(e, slice, w, k + 1, r.store,
                            AddResults(method_results, r.wave_results), use_observer)

SequentialSlice(e, slice, execution_order, use_observer) ==
    LET w == compute_method_waves(e, slice, execution_order)
    IN IF w.tag = "Err" THEN WaveFailure(w)
       ELSE SliceOk(SequentialWaves(e, slice, w.waves, 1, ContextNew, EmptyMap, use_observer))

\* the RunResults of that run, for slices of distinct names
SequentialRun(e, use_observer) ==
    LET order == topological_sort(e, SetToSeq(DOMAIN e.layers),
                                  SetToSeq(DOMAIN e.dependencies)).order
    IN [name \in {e.slices[i].name : i \in DOMAIN e.slices} |->
           SequentialSlice(e, e.slices[CHOOSE i \in DOMAIN e.slices : e.slices[i].name = name],
                           order, use_observer)]

(***************************************************************************)
(* Runs of an engine with two layers: A binds m1 and m2, B binds m1 and    *)
(* may depend on A; each bound function fails or succeeds; one or two      *)
(* slices invoke them (tests/engine.rs, tests/context.rs); two slices may  *)
(* carry the same name.                                                    *)
(***************************************************************************)
\* the layers of the run: fails says which (layer, method) closures fail
ExecLayers(fails) ==
    ("A" :> LayerBuilderBuild("A",
                {MethodArgsWithDefault("m1", Num(0),
                     BoundFn("Value", <<"A", "m1">> \in fails, "a1", {"a1"})),
                 MethodArgs("m2", BoundFn("Value", <<"A", "m2">> \in fails, "a2", {}))}))
    @@
    ("B" :> LayerBuilderBuild("B",
                {MethodArgs("m1",
                     BoundFn("Value", <<"B", "m1">> \in fails, "b1", {"a1", "a2"}))}))

ExecPairs == {<<"A", "m1">>, <<"A", "m2">>, <<"B", "m1">>}

\* the slices: both layers, layer A alone, or layer B alone; the slice hands
\* its own number to A.m1 (LayerMethodsBuilder::call) and null to the others
\* (LayerMethodsBuilder::call_default)
BothLayers(name, n) ==
    Slice(name, ("A" :> (("m1" :> Num(n)) @@ ("m2" :> Null))) @@ ("B" :> ("m1" :> Null)))

ExecSlices(name, n) ==
    {BothLayers(name, n),
     Slice(name, ("A" :> ("m1" :> Num(n)))),
     Slice(name, ("B" :> ("m1" :> Null)))}

InitExec ==
    /\ builder = EngineBuilderNew
    /\ ret = Ok
    /\ sorted = NoSort
    /\ waves = <<>>
    /\ pc = "engine"
    /\ config = EngineConfigNew
    /\ flags \in {SILENT, SILENT_NO_OBSERVER}
    /\ batch = [lo |-> 1, hi |-> 0]
    /\ sl = <<>>
    /\ ctx = <<>>
    /\ results = EmptyMap
    /\ observer = ObserverNew
    /\ previous = <<>>
    /\ tracker = NoTracker /\ loop = NoLoop /\ rwlock = RwLockNew /\ tasks = <<>>
    /\ query = NoQuery
    /\ \E fails \in SUBSET ExecPairs, d \in {EmptyMap, "B" :> <<"A">>},
          slices \in {<<s>> : s \in ExecSlices("s1", 1)}
                     \cup {<<s, t>> : s \in ExecSlices("s1", 1), t \in {BothLayers("s2", 2)}}
                     \cup {<<BothLayers("s1", 1), BothLayers("s1", 2)>>} :
          engine = [layers |-> ExecLayers(fails), dependencies |-> d,
                    init_layer |-> None, slices |-> slices]

SpecExec == InitExec /\ [][NextRun]_vars

(***************************************************************************)
(* Runs under the batch and chunk sizes: up to MaxSlices slices over one   *)
(* layer, one of which may be impossible to schedule, and two of which may *)
(* carry the same name.                                                    *)
(***************************************************************************)
BatchLayers ==
    ("A" :> LayerBuilderBuild("A", {MethodArgs("m1", BoundFn("Value", FALSE, "a1", {"a1"}))}))
    @@
    ("B" :> LayerBuilderBuild("B", {MethodArgs("m1", BoundFn("Value", FALSE, "b1", {"a1"}))}))

SliceNames == <<"s1", "s2", "s3", "s4", "s5">>

\* the i-th slice: it invokes A.m1 with its number, or (unschedulable) B.m1
\* alone, B depending on A
BatchSlice(i, name, unschedulable) ==
    IF unschedulable THEN Slice(name, ("B" :> ("m1" :> Null)))
    ELSE Slice(name, ("A" :> ("m1" :> Num(i))))

\* the configurations the setters of EngineConfig produce
Configs ==
    {chunk_size(c, k) : k \in 0..MaxChunk,
                        c \in {EngineConfigNew} \cup {batch_size(EngineConfigNew, b) : b \in 0..MaxBatch}}

InitBatch ==
    /\ builder = EngineBuilderNew
    /\ ret = Ok
    /\ sorted = NoSort
    /\ waves = <<>>
    /\ pc = "engine"
    /\ config \in Configs
    /\ flags = SILENT
    /\ batch = [lo |-> 1, hi |-> 0]
    /\ sl = <<>>
    /\ ctx = <<>>
    /\ results = EmptyMap
    /\ observer = ObserverNew
    /\ previous = <<>>
    /\ tracker = NoTracker /\ loop = NoLoop /\ rwlock = RwLockNew /\ tasks = <<>>
    /\ query = NoQuery
    /\ \E n \in 1..MaxSlices, u \in 0..MaxSlices, dup \in BOOLEAN :
          /\ u <= n
          /\ dup => n >= 2
          /\ engine = [layers |-> BatchLayers, dependencies |-> ("B" :> <<"A">>),
                       init_layer |-> None,
                       slices |-> [i \in 1..n |->
                                      BatchSlice(i, IF dup /\ i = n THEN SliceNames[1]
                                                    ELSE SliceNames[i], i = u)]]

SpecBatch == InitBatch /\ [][NextRun]_vars

(***************************************************************************)
(* The batched runs with the scheduling of the worker pool: a task that    *)
(* can take a step eventually takes it (every bound function returns, and  *)
(* rayon runs every task it was given), and so does the thread that called *)
(* Engine::run.                                                            *)
(***************************************************************************)
SpecBatchFair == InitBatch /\ [][NextRun]_vars /\ WF_vars(NextRun)

(***************************************************************************)
(* Runs under every RunFlags value: silent or progress-rendering, with or  *)
(* without observation, over the slices and the configurations of the      *)
(* batched runs.  The observer may hold a callback that collects the       *)
(* events it is given.                                                     *)
(***************************************************************************)
NextProgress ==
    \/ NextRun
    \/ \E i \in DOMAIN sl : Increment(i)
    \/ \E i \in DOMAIN sl : LoadCompleted(i)
    \/ \E i \in DOMAIN sl : MaybePrint(i)
    \/ \E i \in DOMAIN sl : ForcePrint(i)

InitProgress ==
    /\ builder = EngineBuilderNew
    /\ ret = Ok
    /\ sorted = NoSort
    /\ waves = <<>>
    /\ pc = "engine"
    /\ config \in Configs
    /\ flags \in {SILENT, SILENT_NO_OBSERVER, TRACKED, PROGRESS_NO_OBSERVER}
    /\ batch = [lo |-> 1, hi |-> 0]
    /\ sl = <<>>
    /\ ctx = <<>>
    /\ results = EmptyMap
    /\ previous = <<>>
    /\ query = NoQuery
    /\ tracker = NoTracker /\ loop = NoLoop /\ rwlock = RwLockNew /\ tasks = <<>>
    /\ \E n \in 1..MaxSlices, u \in 0..MaxSlices, callback \in BOOLEAN :
          /\ u <= n
          /\ callback => (~flags.with_observer \/ n = 1)
          /\ observer = IF callback THEN on_event(ObserverNew, "record") ELSE ObserverNew
          /\ engine = [layers |-> BatchLayers, dependencies |-> ("B" :> <<"A">>),
                       init_layer |-> None,
                       slices |-> [i \in 1..n |-> BatchSlice(i, SliceNames[i], i = u)]]

SpecProgress == InitProgress /\ [][NextProgress]_vars

(***************************************************************************)
(* Runs whose slice names a layer the engine does not hold: A and B are    *)
(* registered, C is not, and the one slice invokes methods of any of the   *)
(* three (SliceBuilder::layer takes any name).                             *)
(***************************************************************************)
\* the slices over A, B and C: m1, or m1 and m2, on A; m1 on B; m1 on C
UnregisteredSlices ==
    {Slice("s1", mpl) :
        mpl \in UNION {[K -> {("m1" :> Null), ("m1" :> Num(1)) @@ ("m2" :> Null)}]
                          : K \in (SUBSET {"A", "B", "C"}) \ {{}}}}

InitUnregistered ==
    /\ builder = EngineBuilderNew
    /\ ret = Ok
    /\ sorted = NoSort
    /\ waves = <<>>
    /\ pc = "engine"
    /\ config = EngineConfigNew
    /\ flags \in {SILENT, SILENT_NO_OBSERVER}
    /\ batch = [lo |-> 1, hi |-> 0]
    /\ sl = <<>>
    /\ ctx = <<>>
    /\ results = EmptyMap
    /\ observer = ObserverNew
    /\ previous = <<>>
    /\ query = NoQuery
    /\ tracker = NoTracker /\ loop = NoLoop /\ rwlock = RwLockNew /\ tasks = <<>>
    /\ \E fails \in SUBSET {<<"A", "m1">>, <<"B", "m1">>}, d \in {EmptyMap, "B" :> <<"A">>},
          s \in UnregisteredSlices :
          engine = [layers |-> ExecLayers(fails), dependencies |-> d,
                    init_layer |-> None, slices |-> <<s>>]

SpecUnregistered == InitUnregistered /\ [][NextRun]_vars

(***************************************************************************)
(* Context under concurrent use (src/sandl/src/context.rs): the methods of *)
(* one wave are handed the slice's Context, each task works on a clone of  *)
(* it and runs a short program of operations.  An operation takes the      *)
(* guard of the RwLock behind the Arc (read for get and contains, write    *)
(* for set, remove and clear), acts on the HashMap and drops the guard at  *)
(* the end of its statement.  `ctx` maps a handle to the store behind it,  *)
(* `rwlock` to the lock of that store.                                     *)
(***************************************************************************)
\* most tasks in the wave
MaxTasks == 2
\* longest program of a task
MaxOps == 2

ContextKeys == {"a", "b"}

\* the handle of the Context created by execute_slice
SliceContext == 1

\* a clone that copies the map behind the handle
ContextClone_deep(handle, t) == handle + t

\* #[derive(Clone)] on Context { data: Arc<..> }: the clone of task t holds
\* the same Arc
ContextClone(handle, t) == handle

\* Context::remove
ContextRemove(store, key) == [k \in DOMAIN store \ {key} |-> store[k]]

\* Context::clear
ContextClear(store) == EmptyMap

\* Context::contains
ContextContains(store, key) == key \in DOMAIN store

\* RwLock::read returns its guard: no writer holds the lock
CanRead(l) == l.writer = {}

\* a lock that hands out the write guard while read guards are held
CanWrite_among_readers(l) == l.writer = {}

\* RwLock::write returns its guard: nobody holds the lock
CanWrite(l) == l.writer = {} /\ l.readers = {}

\* the operations of a program; "set_next" is ctx.set(key, n + 1) for the n
\* of the task's last get (0 if the key was absent)
Ops ==
    {[op |-> o, key |-> k] : o \in {"set", "get", "contains", "remove", "set_next"},
                             k \in ContextKeys}
    \cup {[op |-> "clear", key |-> None]}

IsWrite(op) == op.op \in {"set", "remove", "clear", "set_next"}

\* the value task t hands to Context::set
Written(t) == Num(10 * t)

\* the value of ctx.set(key, n + 1)
NextOf(local) == IF local = {} THEN Num(1) ELSE Num(Unwrap(local).n + 1)

TaskNew(t, program) ==
    [data |-> ContextClone(SliceContext, t), program |-> program, ip |-> 1,
     guard |-> None, local |-> {}, found |-> {}]

InitContext ==
    /\ builder = EngineBuilderNew
    /\ engine = EngineNew
    /\ ret = Ok
    /\ sorted = NoSort
    /\ waves = <<>>
    /\ pc = "wave"
    /\ config = EngineConfigNew
    /\ flags = SILENT_NO_OBSERVER
    /\ batch = [lo |-> 1, hi |-> 0]
    /\ sl = <<>>
    /\ results = EmptyMap
    /\ observer = ObserverNew
    /\ previous = <<>>
    /\ query = NoQuery
    /\ tracker = NoTracker
    /\ loop = NoLoop
    /\ \E n \in 2..MaxTasks :
       \E programs \in [1..n -> SeqsUpTo(Ops, MaxOps)] :
          /\ tasks = [t \in 1..n |-> TaskNew(t, programs[t])]
          /\ ctx = [h \in {SliceContext} \cup {tasks[t].data : t \in 1..n} |-> ContextNew]
          /\ rwlock = [h \in DOMAIN ctx |-> RwLockNew]

\* self.data.read() / self.data.write(): the task blocks until the guard is
\* granted
Lock(t) ==
    /\ tasks[t].ip \in DOMAIN tasks[t].program
    /\ tasks[t].guard = None
    /\ LET h == tasks[t].data
       IN IF IsWrite(tasks[t].program[tasks[t].ip])
          THEN /\ CanWrite(rwlock[h])
               /\ rwlock' = [rwlock EXCEPT ![h].writer = {t}]
               /\ tasks' = [tasks EXCEPT ![t].guard = "write"]
          ELSE /\ CanRead(rwlock[h])
               /\ rwlock' = [rwlock EXCEPT ![h].readers = @ \cup {t}]
               /\ tasks' = [tasks EXCEPT ![t].guard = "read"]
    /\ UNCHANGED <<builder, engine, ret, sorted, waves, pc, config, flags, batch, sl, ctx,
                   results, observer, previous, query, tracker, loop>>

\* the rest of the statement: the HashMap operation under the guard, and the
\* drop of the guard
Apply(t) ==
    /\ tasks[t].ip \in DOMAIN tasks[t].program
    /\ tasks[t].guard # None
    /\ LET h == tasks[t].data
           op == tasks[t].program[tasks[t].ip]
       IN /\ ctx' = [ctx EXCEPT ![h] =
                        IF op.op = "set" THEN ContextSet(@, op.key, Written(t))
                        ELSE IF op.op = "set_next"
                             THEN ContextSet(@, op.key, NextOf(tasks[t].local))
                        ELSE IF op.op = "remove" THEN ContextRemove(@, op.key)
                        ELSE IF op.op = "clear" THEN ContextClear(@)
                        ELSE @]
          /\ tasks' = [tasks EXCEPT
                          ![t].ip = @ + 1,
                          ![t].guard = None,
                          ![t].local = IF op.op = "get" THEN ContextGet(ctx[h], op.key)
                                       ELSE @,
                          ![t].found = IF op.op = "contains"
                                       THEN {ContextContains(ctx[h], op.key)} ELSE @]
          /\ rwlock' = [rwlock EXCEPT ![h].readers = @ \ {t},
                                      ![h].writer = @ \ {t}]
    /\ UNCHANGED <<builder, engine, ret, sorted, waves, pc, config, flags, batch, sl,
                   results, observer, previous, query, tracker, loop>>

NextContext ==
    \/ \E t \in DOMAIN tasks : Lock(t)
    \/ \E t \in DOMAIN tasks : Apply(t)

SpecContext == InitContext /\ [][NextContext]_vars

(***************************************************************************)
(* Argument resolution: one layer with one method, declared with or        *)
(* without a default and bound, or bound in a Layer whose                  *)
(* methods_to_defaults has no entry for it; one slice that invokes it with *)
(* an argument (tests/args.rs).                                            *)
(***************************************************************************)
ObjectKeys == {"a", "b"}

\* the values held under a key: numbers, null and nested objects
FieldValues ==
    {Num(1), Num(2), Null, Object("x" :> Num(1)), Object(("x" :> Num(2)) @@ ("y" :> Num(1)))}

Objects == UNION {{Object(f) : f \in [K -> FieldValues]} : K \in SUBSET ObjectKeys}

Values == {Null, Num(1), Num(2)} \cup Objects

\* ToValue: the values a default of type A turns into
ToValues(A) == IF A = "Value" THEN Values ELSE {Num(1), Num(2)}

ArgLayers ==
    UNION {
        {LayerBuilderBuild("A", {MethodArgs("m1", BoundFn(A, fails, "a1", {}))})}
        \cup {LayerBuilderBuild("A", {MethodArgsWithDefault("m1", d, BoundFn(A, fails, "a1", {}))})
                 : d \in ToValues(A)}
        \cup {[name |-> "A", id |-> 1, methods_to_defaults |-> EmptyMap,
               binds |-> ("m1" :> BoundFn(A, fails, "a1", {}))]}
      : A \in ArgTypes, fails \in BOOLEAN}

InitArgs ==
    /\ builder = EngineBuilderNew
    /\ ret = Ok
    /\ sorted = NoSort
    /\ waves = <<>>
    /\ pc = "engine"
    /\ config = EngineConfigNew
    /\ flags \in {SILENT, SILENT_NO_OBSERVER}
    /\ batch = [lo |-> 1, hi |-> 0]
    /\ sl = <<>>
    /\ ctx = <<>>
    /\ results = EmptyMap
    /\ observer = ObserverNew
    /\ previous = <<>>
    /\ tracker = NoTracker /\ loop = NoLoop /\ rwlock = RwLockNew /\ tasks = <<>>
    /\ query = NoQuery
    /\ \E layer \in ArgLayers, a \in Values :
          engine = [layers |-> ("A" :> layer), dependencies |-> EmptyMap, init_layer |-> None,
                    slices |-> <<Slice("s1", ("A" :> ("m1" :> a)))>>]

SpecArgs == InitArgs /\ [][NextRun]_vars

(***************************************************************************)
(* Engine::run called again on the engine once a run has returned, with    *)
(* the same or with other flags: up to MaxRuns runs of an engine with the  *)
(* layers A and B, over one slice that invokes the three methods or over   *)
(* two slices that invoke one each.                                        *)
(***************************************************************************)
\* the caller keeps the RunResults of the run and calls Engine::run again
RunAgain ==
    /\ pc = "done"
    /\ Len(previous) + 1 < MaxRuns
    /\ previous' = Append(previous, [flags |-> flags, results |-> results])
    /\ flags' \in {SILENT, SILENT_NO_OBSERVER}
    /\ pc' = "engine"
    /\ UNCHANGED <<builder, engine, ret, sorted, waves, config, batch, sl, ctx, results,
                   observer, query, tracker, loop, rwlock, tasks>>

NextRerun ==
    \/ NextRun
    \/ RunAgain

InitRerun ==
    /\ builder = EngineBuilderNew
    /\ ret = Ok
    /\ sorted = NoSort
    /\ waves = <<>>
    /\ pc = "engine"
    /\ config = EngineConfigNew
    /\ flags \in {SILENT, SILENT_NO_OBSERVER}
    /\ batch = [lo |-> 1, hi |-> 0]
    /\ sl = <<>>
    /\ ctx = <<>>
    /\ results = EmptyMap
    /\ observer = ObserverNew
    /\ previous = <<>>
    /\ tracker = NoTracker /\ loop = NoLoop /\ rwlock = RwLockNew /\ tasks = <<>>
    /\ query = NoQuery
    /\ \E fails \in SUBSET ExecPairs, d \in {EmptyMap, "B" :> <<"A">>},
          slices \in {<<BothLayers("s1", 1)>>,
                      <<Slice("s1", ("A" :> ("m1" :> Num(1)))), Slice("s2", ("A" :> ("m1" :> Num(2))))>>,
                      <<Slice("s1", ("A" :> ("m1" :> Num(1)))), Slice("s2", ("B" :> ("m1" :> Null)))>>} :
          engine = [layers |-> ExecLayers(fails), dependencies |-> d,
                    init_layer |-> None, slices |-> slices]

SpecRerun == InitRerun /\ [][NextRerun]_vars

(***************************************************************************)
(* From the builder to the run (tests/engine.rs, init_layer and            *)
(* init_layer_with_multiple_layers): the builder holds the layers A and B, *)
(* or A, B and C, an initializer, at most one declared dependency and one  *)
(* slice; it is built, and the engine it returns is run.                   *)
(***************************************************************************)
InitializerLayers(fails) ==
    ExecLayers(fails)
    @@ ("C" :> LayerBuilderBuild("C",
                   {MethodArgs("m1", BoundFn("Value", FALSE, "c1", {"a1", "b1"}))}))

\* the slice invokes every method of A, B and C, or those of two layers
InitializerSlices ==
    {Slice("s1", ("A" :> (("m1" :> Num(1)) @@ ("m2" :> Null))) @@ ("B" :> ("m1" :> Null))
                 @@ ("C" :> ("m1" :> Null))),
     Slice("s1", ("A" :> (("m1" :> Num(1)) @@ ("m2" :> Null))) @@ ("B" :> ("m1" :> Null))),
     Slice("s1", ("B" :> ("m1" :> Null)) @@ ("C" :> ("m1" :> Null)))}

\* the dependencies declared with EngineBuilder::dependency
InitializerDeps ==
    {EmptyMap, "A" :> <<"B">>, "B" :> <<"A">>, "A" :> <<"C">>, "C" :> <<"B">>}

InitInitializer ==
    /\ engine = EngineNew
    /\ ret = NoRet
    /\ sorted = NoSort
    /\ waves = <<>>
    /\ pc = "builder"
    /\ config = EngineConfigNew
    /\ flags = SILENT_NO_OBSERVER
    /\ batch = [lo |-> 1, hi |-> 0]
    /\ sl = <<>>
    /\ ctx = <<>>
    /\ results = EmptyMap
    /\ observer = ObserverNew
    /\ previous = <<>>
    /\ tracker = NoTracker /\ loop = NoLoop /\ rwlock = RwLockNew /\ tasks = <<>>
    /\ query = NoQuery
    /\ \E fails \in {{}, {<<"A", "m1">>}, {<<"B", "m1">>}}, L \in {<<"A", "B">>, <<"A", "B", "C">>},
          init \in Names, d \in InitializerDeps, s \in InitializerSlices :
          builder = [layers |-> [j \in DOMAIN L |-> InitializerLayers(fails)[L[j]]],
                     slices |-> <<s>>, dependencies |-> d, init_layer |-> init]

NextInitializer ==
    \/ Build
    \/ NextRun

SpecInitializer == InitInitializer /\ [][NextInitializer]_vars

(***************************************************************************)
(* Errors and their queries (src/sandl/src/error.rs, tests/error.rs): a    *)
(* caller holds an error of any variant but MethodExecutionFailed, wraps   *)
(* it with Error::with_context up to MaxWraps times, and asks the error it *)
(* holds for its root cause, message, context and Display text.            *)
(***************************************************************************)
BaseErrors ==
    {ErrorLayerNotFound("A"), ErrorLayerAlreadyExists("A"), ErrorMethodNotFound("m1", "A"),
     ErrorMethodNotBound("m1", "B"), ErrorExecutionError("failed"),
     ErrorExecutionError("root problem"), ErrorConfigError("Expected i64")}

\* the (slice, layer, method, args) handed to with_context
Contexts ==
    {<<s, l, "m1", a>> : s \in {"s1", "s2"}, l \in {"A", "B"}, a \in {Null, Num(1)}}

\* the caller holds `error`, made from `base` by the calls of with_context
\* listed in `contexts`, and has asked it nothing yet
ErrorQuery(base, contexts, error) ==
    [of |-> "Error", base |-> base, contexts |-> contexts, error |-> error, answers |-> {}]

\* what the query methods of Error return for e
AskError(e) ==
    [root_cause |-> root_cause(e), message |-> message(e),
     is_execution_error |-> is_execution_error(e),
     execution_context |-> execution_context(e), to_string |-> to_string(e)]

InitErrors ==
    /\ builder = EngineBuilderNew
    /\ engine = EngineNew
    /\ ret = NoRet
    /\ sorted = NoSort
    /\ waves = <<>>
    /\ pc = "query"
    /\ config = EngineConfigNew
    /\ flags = SILENT
    /\ batch = [lo |-> 1, hi |-> 0]
    /\ sl = <<>>
    /\ ctx = <<>>
    /\ results = EmptyMap
    /\ observer = ObserverNew
    /\ previous = <<>>
    /\ tracker = NoTracker /\ loop = NoLoop /\ rwlock = RwLockNew /\ tasks = <<>>
    /\ query \in {ErrorQuery(b, <<>>, b) : b \in BaseErrors}

\* error.with_context(slice, layer, method, args)
WithContext(c) ==
    /\ query.of = "Error"
    /\ Len(query.contexts) < MaxWraps
    /\ query' = ErrorQuery(query.base, Append(query.contexts, c),
                           with_context(query.error, c[1], c[2], c[3], c[4]))
    /\ UNCHANGED <<builder, engine, ret, sorted, waves, pc, config, flags, batch, sl, ctx,
                   results, observer, previous, tracker, loop, rwlock, tasks>>

\* root_cause(), message(), is_execution_error(), execution_context() and
\* to_string() on the error held
QueryError ==
    /\ query.of = "Error"
    /\ query.answers = {}
    /\ query' = [query EXCEPT !.answers = {AskError(query.error)}]
    /\ UNCHANGED <<builder, engine, ret, sorted, waves, pc, config, flags, batch, sl, ctx,
                   results, observer, previous, tracker, loop, rwlock, tasks>>

NextErrors ==
    \/ \E c \in Contexts : WithContext(c)
    \/ QueryError

SpecErrors == InitErrors /\ [][NextErrors]_vars

(***************************************************************************)
(* RunResults and its derived queries (src/sandl/src/results.rs): a caller *)
(* holds the RunResults of a run over at most two slices of at most two    *)
(* pairs each, and asks it the counts, the aggregate booleans and the list *)
(* of method errors.  Durations are not modelled.                          *)
(***************************************************************************)
\* the sum, over the Ok slices among names, of the entries whose tag is in tags
RECURSIVE CountMethods(_, _, _)
CountMethods(r, names, tags) ==
    IF names = {} THEN 0
    ELSE LET n == CHOOSE x \in names : TRUE
             here == IF r[n].tag = "Ok"
                     THEN Cardinality({p \in DOMAIN r[n].method_results :
                                          r[n].method_results[p].tag \in tags})
                     ELSE 0
         IN here + CountMethods(r, names \ {n}, tags)

total_slices(r) == Cardinality(DOMAIN r)

successful_slices(r) == Cardinality({n \in DOMAIN r : r[n].tag = "Ok"})

failed_slices(r) == Cardinality({n \in DOMAIN r : r[n].tag = "Err"})

total_methods(r) == CountMethods(r, DOMAIN r, {"Ok", "Err"})

successful_methods(r) == CountMethods(r, DOMAIN r, {"Ok"})

failed_methods(r) == CountMethods(r, DOMAIN r, {"Err"})

is_all_success(r) ==
    /\ successful_slices(r) = total_slices(r)
    /\ successful_methods(r) = total_methods(r)

\* a check that looks at the slices only
has_failures_slices_only(r) == failed_slices(r) > 0

has_failures(r) == failed_slices(r) > 0 \/ failed_methods(r) > 0

\* get_all_method_errors: `for (slice_name, slice_result) in self` walks the
\* map in the hash order norder, `for ((layer, method), method_result) in
\* &slice_results.method_results` in the hash order porder
RECURSIVE get_all_method_errors(_, _, _)
get_all_method_errors(r, norder, porder) ==
    IF norder = <<>> THEN <<>>
    ELSE LET slice_name == Head(norder)
             failed == IF r[slice_name].tag = "Ok"
                       THEN SelectSeq(porder, LAMBDA p :
                                /\ p \in DOMAIN r[slice_name].method_results
                                /\ r[slice_name].method_results[p].tag = "Err")
                       ELSE <<>>
         IN [j \in DOMAIN failed |->
                <<slice_name, failed[j][1], failed[j][2],
                  r[slice_name].method_results[failed[j]].error>>]
            \o get_all_method_errors(r, Tail(norder), porder)

\* what the queries of RunResultsExt return for r
AskResults(r, norder, porder) ==
    [total_slices |-> total_slices(r), successful_slices |-> successful_slices(r),
     failed_slices |-> failed_slices(r), total_methods |-> total_methods(r),
     successful_methods |-> successful_methods(r), failed_methods |-> failed_methods(r),
     is_all_success |-> is_all_success(r), has_failures |-> has_failures(r),
     get_all_method_errors |-> get_all_method_errors(r, norder, porder)]

ResultPairs == {<<"A", "m1">>, <<"B", "m1">>}

\* Result<Value> of a pair: a value, a raw error, an error with its context
MethodResults ==
    {ValueOk(Num(1)), ValueErr(ErrorExecutionError("failed")),
     ValueErr(with_context(ErrorExecutionError("failed"), "s1", "A", "m1", Null))}

\* Result<SliceResults> of a slice
SliceResultsSet ==
    {SliceErr(ErrorConfigError("Unable to compute method waves"))}
    \cup UNION {{SliceOk(mr) : mr \in [P -> MethodResults]} : P \in SUBSET ResultPairs}

RunResultsSet == UNION {[N -> SliceResultsSet] : N \in SUBSET {"s1", "s2"}}

InitResults ==
    /\ builder = EngineBuilderNew
    /\ engine = EngineNew
    /\ ret = NoRet
    /\ sorted = NoSort
    /\ waves = <<>>
    /\ pc = "query"
    /\ config = EngineConfigNew
    /\ flags = SILENT
    /\ batch = [lo |-> 1, hi |-> 0]
    /\ sl = <<>>
    /\ ctx = <<>>
    /\ results \in RunResultsSet
    /\ observer = ObserverNew
    /\ previous = <<>>
    /\ tracker = NoTracker /\ loop = NoLoop /\ rwlock = RwLockNew /\ tasks = <<>>
    /\ query = [of |-> "RunResults", answers |-> {}]

\* the queries of RunResultsExt on the RunResults held
QueryResults ==
    /\ query.of = "RunResults"
    /\ query.answers = {}
    /\ \E norder \in Perms(DOMAIN results), porder \in Perms(ResultPairs) :
          query' = [query EXCEPT !.answers = {AskResults(results, norder, porder)}]
    /\ UNCHANGED <<builder, engine, ret, sorted, waves, pc, config, flags, batch, sl, ctx,
                   results, observer, previous, tracker, loop, rwlock, tasks>>

NextResults == QueryResults

SpecResults == InitResults /\ [][NextResults]_vars

(***************************************************************************)
(* Observed runs (tests/observer.rs): the engine's observer has a callback *)
(* that collects every event.  Layer A declares m1 with an object default  *)
(* and m2 without one, layer B declares m1 and may depend on A.  A bound   *)
(* function succeeds, fails with an ExecutionError, or fails with an error *)
(* that already carries a context.  The slices have distinct names.        *)
(***************************************************************************)
Behaviours == {"ok", "fails", "wrapped"}

\* the error a closure builds with Error::with_context before it returns it
WrappedError == with_context(ErrorExecutionError("inner"), "elsewhere", "L", "m", Num(7))

ObsFn(behaviour, key, reads) ==
    IF behaviour = "ok" THEN BoundFn("Value", FALSE, key, reads)
    ELSE IF behaviour = "fails" THEN BoundFn("Value", TRUE, key, reads)
    ELSE BoundFnErr("Value", WrappedError, key, reads)

ObsDefault == Object(("a" :> Num(1)) @@ ("b" :> Num(1)))

ObsLayers(beh) ==
    ("A" :> LayerBuilderBuild("A",
                {MethodArgsWithDefault("m1", ObsDefault, ObsFn(beh[<<"A", "m1">>], "a1", {})),
                 MethodArgs("m2", ObsFn(beh[<<"A", "m2">>], "a2", {}))}))
    @@
    ("B" :> LayerBuilderBuild("B",
                {MethodArgs("m1", ObsFn(beh[<<"B", "m1">>], "b1", {"a1"}))}))

\* the first slice invokes the three methods, or A.m1 alone; it hands A.m1
\* null or an object that overrides one key of the default
ObsFirst(a) ==
    Slice("s1", ("A" :> (("m1" :> a) @@ ("m2" :> Null))) @@ ("B" :> ("m1" :> Null)))

ObsShort(a) == Slice("s1", ("A" :> ("m1" :> a)))

\* the second slice, if any: A.m1 alone, a method A does not bind, or B alone
ObsSecond ==
    {Slice("s2", ("A" :> ("m1" :> Num(2)))),
     Slice("s2", ("A" :> ("m3" :> Null))),
     Slice("s2", ("B" :> ("m1" :> Null)))}

InitObs ==
    /\ builder = EngineBuilderNew
    /\ ret = Ok
    /\ sorted = NoSort
    /\ waves = <<>>
    /\ pc = "engine"
    /\ config = EngineConfigNew
    /\ flags \in {SILENT, SILENT_NO_OBSERVER}
    /\ batch = [lo |-> 1, hi |-> 0]
    /\ sl = <<>>
    /\ ctx = <<>>
    /\ results = EmptyMap
    /\ observer = on_event(ObserverNew, "record")
    /\ previous = <<>>
    /\ tracker = NoTracker /\ loop = NoLoop /\ rwlock = RwLockNew /\ tasks = <<>>
    /\ query = NoQuery
    /\ \E beh \in [ExecPairs -> Behaviours], d \in {EmptyMap, "B" :> <<"A">>},
          a \in {Null, Object("b" :> Num(2))} :
       \E slices \in {<<ObsFirst(a)>>} \cup {<<ObsShort(a), t>> : t \in ObsSecond} :
          /\ beh[<<"A", "m2">>] # "wrapped"
          /\ engine = [layers |-> ObsLayers(beh), dependencies |-> d,
                       init_layer |-> None, slices |-> slices]

SpecObs == InitObs /\ [][NextRun]_vars

(***************************************************************************)
(* Vocabulary of the properties.                                           *)
(***************************************************************************)
\* the recorded edges <<a, b>>: "a depends on b"
Edges(d) == UNION {{<<a, d[a][i]>> : i \in DOMAIN d[a]} : a \in DOMAIN d}

RECURSIVE Closure(_)
Closure(R) ==
    LET R3 == R \cup {<<x[1], y[2]>> : <<x, y>> \in {q \in R \X R : q[1][2] = q[2][1]}}
    IN IF R3 = R THEN R ELSE Closure(R3)

Cyclic(E) == \E p \in Closure(E) : p[1] = p[2]

\* every layer an edge names is registered
EndpointsRegistered(e) ==
    \A p \in Edges(e.dependencies) : p[1] \in DOMAIN e.layers /\ p[2] \in DOMAIN e.layers

Pos(order, n) == CHOOSE i \in DOMAIN order : order[i] = n

\* b stands before a in the ordering
Before(order, b, a) ==
    /\ \E i \in DOMAIN order : order[i] = a
    /\ \E i \in DOMAIN order : order[i] = b
    /\ Pos(order, b) < Pos(order, a)

\* the ordering holds every registered layer exactly once
EveryLayerOnce(e, order) ==
    /\ Len(order) = Cardinality(DOMAIN e.layers)
    /\ Range(order) = DOMAIN e.layers

SortReturned == pc \in {"sorted", "panicked"}

\* a step of EngineBuilder::build
BuildStep == pc = "builder" /\ pc' # "builder"

BuilderNames(b) == {b.layers[i].name : i \in DOMAIN b.layers}

DistinctNames(b) == \A i, j \in DOMAIN b.layers : b.layers[i].name = b.layers[j].name => i = j

\* index of the first layer of the builder whose name was used before it
FirstDuplicate(b) ==
    CHOOSE j \in DOMAIN b.layers :
        /\ \E i \in 1..(j - 1) : b.layers[i].name = b.layers[j].name
        /\ \A k \in 1..(j - 1) : \A i \in 1..(k - 1) : b.layers[i].name # b.layers[k].name

\* the edges of the builder's graph, the initializer's implicit ones included
BuilderEdges(b) ==
    Edges(b.dependencies) \cup
    (IF b.init_layer = None THEN {}
     ELSE {<<n, b.init_layer>> : n \in BuilderNames(b) \ {b.init_layer}})

\* no other build-time check than the ones on the graph can reject the builder
WellRegistered(b) ==
    /\ DistinctNames(b)
    /\ b.init_layer # None => b.init_layer \in BuilderNames(b)

\* the (layer, method) pairs the slice names on registered layers
SlicePairs(e, slice) ==
    UNION {{<<l, m>> : m \in DOMAIN slice.methods_per_layer[l]} :
           l \in DOMAIN slice.methods_per_layer \cap DOMAIN e.layers}

\* the layers of a wave, and how often a pair occurs in a wave list
WaveLayers(wave) == {wave[j][1] : j \in DOMAIN wave}

Occurrences(w, p) == Cardinality({q \in UNION {{<<k, j>> : j \in DOMAIN w[k]} : k \in DOMAIN w} :
                                  w[q[1]][q[2]] = p})

\* the slice invokes at least one method on every layer it names
InvokesEveryLayer(slice) ==
    \A l \in DOMAIN slice.methods_per_layer : DOMAIN slice.methods_per_layer[l] # {}

\* compute_method_waves has returned for slice i
WavesReturned(i) == i \in DOMAIN waves /\ waves[i] # NoWaves

(***************************************************************************)
(* C1: for registered layers and an acyclic dependency map whose endpoints *)
(* are all registered, with no initializer, topological_sort returns Ok    *)
(* with an ordering that holds every registered layer exactly once and     *)
(* puts B before A for every recorded edge "A depends on B", repeated      *)
(* edges included.                                                         *)
(***************************************************************************)
C1_TopologicalOrder ==
    (/\ SortReturned
     /\ engine.init_layer = None
     /\ ~Cyclic(Edges(engine.dependencies))
     /\ EndpointsRegistered(engine))
    => /\ sorted.tag = "Ok"
       /\ EveryLayerOnce(engine, sorted.order)
       /\ \A p \in Edges(engine.dependencies) : Before(sorted.order, p[2], p[1])

\* three layers sorted, one of them recorded twice as depending on another
C1_Witness ==
    /\ pc = "sorted"
    /\ engine.init_layer = None
    /\ Cardinality(DOMAIN engine.layers) = 3
    /\ \E a \in DOMAIN engine.dependencies :
          /\ Len(engine.dependencies[a]) = 2
          /\ engine.dependencies[a][1] = engine.dependencies[a][2]
    /\ Len(sorted.order) = 3

(***************************************************************************)
(* C2 as stated: with an initializer designated on an acyclic graph (also  *)
(* directly through set_init_layer followed by any add_dependency calls),  *)
(* the ordering topological_sort returns starts with the initializer and   *)
(* has B before A for every recorded edge "A depends on B".                *)
(***************************************************************************)
C2_Original ==
    (/\ SortReturned
     /\ engine.init_layer # None
     /\ ~Cyclic(Edges(engine.dependencies))
     /\ EndpointsRegistered(engine))
    => /\ sorted.tag = "Ok"
       /\ sorted.order[1] = engine.init_layer
       /\ \A p \in Edges(engine.dependencies) : Before(sorted.order, p[2], p[1])

(***************************************************************************)
(* C2 amended: with an initializer designated on an acyclic graph whose    *)
(* endpoints are registered, topological_sort returns Ok with an ordering  *)
(* that holds every layer once, starts with the initializer, and has B     *)
(* before A for every recorded edge "A depends on B" whose A is not the    *)
(* initializer; the initializer is put first regardless of the edges       *)
(* recorded for it.                                                        *)
(***************************************************************************)
C2_InitFirst ==
    (/\ SortReturned
     /\ engine.init_layer # None
     /\ ~Cyclic(Edges(engine.dependencies))
     /\ EndpointsRegistered(engine))
    => /\ sorted.tag = "Ok"
       /\ EveryLayerOnce(engine, sorted.order)
       /\ sorted.order[1] = engine.init_layer
       /\ \A p \in Edges(engine.dependencies) :
             p[1] # engine.init_layer => Before(sorted.order, p[2], p[1])

\* the initializer was designated, has a recorded dependency of its own, and
\* the sort put it first
C2_Witness ==
    /\ pc = "sorted"
    /\ engine.init_layer # None
    /\ engine.init_layer \in DOMAIN engine.dependencies
    /\ Cardinality(DOMAIN engine.layers) >= 2
    /\ sorted.order[1] = engine.init_layer

(***************************************************************************)
(* C3: for every dependency graph with a cycle (a self-dependency and a    *)
(* cycle through the initializer's implicit edges included),               *)
(* EngineBuilder::build returns a ConfigError and never an Engine.         *)
(***************************************************************************)
C3_CycleFailsBuild ==
    [][(/\ BuildStep
        /\ WellRegistered(builder)
        /\ Cyclic(BuilderEdges(builder)))
       => (ret'.tag = "Err" /\ ret'.kind = "ConfigError" /\ pc' = "build_failed")]_vars

(***************************************************************************)
(* C4: if a declared dependency edge names an unregistered layer, as the   *)
(* dependent or as the depended-upon layer, EngineBuilder::build fails     *)
(* with LayerNotFound, before any slice runs.                              *)
(***************************************************************************)
C4_UnregisteredEdgeFailsBuild ==
    [][(/\ BuildStep
        /\ WellRegistered(builder)
        /\ \E p \in Edges(builder.dependencies) :
              p[1] \notin BuilderNames(builder) \/ p[2] \notin BuilderNames(builder))
       => (ret'.tag = "Err" /\ ret'.kind = "LayerNotFound" /\ pc' = "build_failed")]_vars

(***************************************************************************)
(* C5: designating an initializer whose name is not registered makes       *)
(* Engine::set_init_layer, and so EngineBuilder::build, return             *)
(* LayerNotFound; the engine's initializer is left as it was (unset in a   *)
(* build) and no implicit dependency edge is added.                        *)
(***************************************************************************)
C5_UnregisteredInit ==
    [][/\ (/\ BuildStep
           /\ DistinctNames(builder)
           /\ builder.init_layer # None
           /\ builder.init_layer \notin BuilderNames(builder))
          => /\ ret' = LayerNotFound(builder.init_layer)
             /\ pc' = "build_failed"
             /\ engine'.init_layer = None
             /\ engine'.dependencies = EmptyMap
       /\ \A n \in Names :
            (SetInitLayer(n) /\ n \notin DOMAIN engine.layers)
            => /\ ret' = LayerNotFound(n)
               /\ engine'.init_layer = engine.init_layer
               /\ engine'.dependencies = engine.dependencies]_vars

\* a build stopped at the initializer: layers were registered, the name
\* designated is not among them
C5_Witness ==
    /\ pc = "build_failed"
    /\ ret.kind = "LayerNotFound"
    /\ ret.arg \notin DOMAIN engine.layers
    /\ DOMAIN engine.layers # {}

(***************************************************************************)
(* C6: registering a layer whose name is already registered returns        *)
(* LayerAlreadyExists and leaves the registry unchanged, the layer         *)
(* registered first under the name being kept; EngineBuilder::build given  *)
(* two layers of one name returns that error instead of an Engine.         *)
(***************************************************************************)
C6_DuplicateLayer ==
    [][/\ (BuildStep /\ ~DistinctNames(builder))
          => LET j == FirstDuplicate(builder)
                 n == builder.layers[j].name
             IN /\ ret' = LayerAlreadyExists(n)
                /\ pc' = "build_failed"
                /\ DOMAIN engine'.layers = {builder.layers[i].name : i \in 1..(j - 1)}
                /\ \A i \in 1..(j - 1) : engine'.layers[builder.layers[i].name] = builder.layers[i]
       /\ \A n \in Names :
            (RegisterLayer(n) /\ n \in DOMAIN engine.layers)
            => /\ ret' = LayerAlreadyExists(n)
               /\ engine' = engine]_vars

\* a build stopped at a second layer of a name, after two layers were registered
C6_Witness ==
    /\ pc = "build_failed"
    /\ ret.kind = "LayerAlreadyExists"
    /\ ret.arg \in DOMAIN engine.layers
    /\ Cardinality(DOMAIN engine.layers) >= 2

(***************************************************************************)
(* C7: for a slice that invokes N >= 1 registered layers (at least one     *)
(* method on each), none of which has a recorded dependency,               *)
(* compute_method_waves returns exactly one wave and that wave holds       *)
(* every (layer, method) pair of the slice.                                *)
(***************************************************************************)
C7_IndependentLayersOneWave ==
    \A i \in DOMAIN engine.slices :
        LET s == engine.slices[i]
            L == DOMAIN s.methods_per_layer
        IN (/\ WavesReturned(i)
            /\ L # {}
            /\ L \subseteq DOMAIN engine.layers
            /\ InvokesEveryLayer(s)
            /\ L \cap DOMAIN engine.dependencies = {})
           => /\ waves[i].tag = "Ok"
              /\ Len(waves[i].waves) = 1
              /\ Range(waves[i].waves[1]) = SlicePairs(engine, s)
              /\ Len(waves[i].waves[1]) = Cardinality(SlicePairs(engine, s))

\* three independent layers of one slice, one of them with two methods, in one wave
C7_Witness ==
    /\ WavesReturned(1)
    /\ DOMAIN engine.slices[1].methods_per_layer = Names
    /\ Names \cap DOMAIN engine.dependencies = {}
    /\ Len(waves[1].waves) = 1
    /\ Len(waves[1].waves[1]) >= 4

(***************************************************************************)
(* C8: for a linear chain in which c depends on b and b depends on a, a    *)
(* slice invoking the three layers gets exactly three waves, in the order  *)
(* a, b, c, each wave holding the methods of exactly one layer.            *)
(***************************************************************************)
C8_ChainThreeWaves ==
    \A i \in DOMAIN engine.slices : \A a, b, c \in Names :
        LET s == engine.slices[i]
        IN (/\ WavesReturned(i)
            /\ Cardinality({a, b, c}) = 3
            /\ {a, b, c} \subseteq DOMAIN engine.layers
            /\ Edges(engine.dependencies) = {<<c, b>>, <<b, a>>}
            /\ DOMAIN s.methods_per_layer = {a, b, c}
            /\ InvokesEveryLayer(s))
           => /\ waves[i].tag = "Ok"
              /\ Len(waves[i].waves) = 3
              /\ \A k \in 1..3 :
                    LET l == <<a, b, c>>[k]
                    IN /\ Range(waves[i].waves[k]) = {<<l, m>> : m \in DOMAIN s.methods_per_layer[l]}
                       /\ Len(waves[i].waves[k]) = Cardinality(DOMAIN s.methods_per_layer[l])

\* the chain C -> B -> A scheduled in three waves, the middle one with two methods
C8_Witness ==
    /\ WavesReturned(1)
    /\ engine.dependencies = ("C" :> <<"B">>) @@ ("B" :> <<"A">>)
    /\ DOMAIN engine.slices[1].methods_per_layer = Names
    /\ Len(waves[1].waves) = 3
    /\ WaveLayers(waves[1].waves[1]) = {"A"}
    /\ Len(waves[1].waves[2]) = 2

(***************************************************************************)
(* C9: in every wave list compute_method_waves returns, each layer placed  *)
(* in wave k has every layer it depends on placed in a wave with a smaller *)
(* index; a layer and one of its dependencies never share a wave.          *)
(***************************************************************************)
C9_DependenciesInEarlierWaves ==
    \A i \in DOMAIN engine.slices :
        (WavesReturned(i) /\ waves[i].tag = "Ok")
        => \A k \in DOMAIN waves[i].waves : \A l \in WaveLayers(waves[i].waves[k]) :
              \A p \in Edges(engine.dependencies) :
                 p[1] = l => /\ \E j \in 1..(k - 1) : p[2] \in WaveLayers(waves[i].waves[j])
                             /\ p[2] \notin WaveLayers(waves[i].waves[k])

\* a layer with two recorded dependencies placed after the waves of both
C9_Witness ==
    /\ WavesReturned(1)
    /\ waves[1].tag = "Ok"
    /\ \E l \in DOMAIN engine.dependencies :
          /\ Cardinality(Range(engine.dependencies[l])) = 2
          /\ \E k \in DOMAIN waves[1].waves : k >= 2 /\ l \in WaveLayers(waves[1].waves[k])

(***************************************************************************)
(* C10: in every wave list compute_method_waves returns for a slice, the   *)
(* number of waves is at most the number of distinct layers of the slice,  *)
(* all methods the slice invokes on one layer are in the same wave, and    *)
(* every (layer, method) pair of a participating registered layer is in    *)
(* exactly one wave, exactly once; no other pair is in a wave.             *)
(***************************************************************************)
C10_WavesPartitionPairs ==
    \A i \in DOMAIN engine.slices :
        LET s == engine.slices[i]
            w == waves[i].waves
        IN (WavesReturned(i) /\ waves[i].tag = "Ok")
           => /\ Len(w) <= Cardinality(DOMAIN s.methods_per_layer)
              /\ \A k1, k2 \in DOMAIN w :
                    WaveLayers(w[k1]) \cap WaveLayers(w[k2]) # {} => k1 = k2
              /\ \A p \in SlicePairs(engine, s) : Occurrences(w, p) = 1
              /\ \A k \in DOMAIN w : Range(w[k]) \subseteq SlicePairs(engine, s)

\* two waves, a layer with two methods among them, and a slice layer that is
\* not registered
C10_Witness ==
    /\ WavesReturned(1)
    /\ waves[1].tag = "Ok"
    /\ Len(waves[1].waves) = 2
    /\ \E l \in DOMAIN engine.layers :
          /\ l \in DOMAIN engine.slices[1].methods_per_layer
          /\ DOMAIN engine.slices[1].methods_per_layer[l] = Methods
    /\ ~(DOMAIN engine.slices[1].methods_per_layer \subseteq DOMAIN engine.layers)

(***************************************************************************)
(* Vocabulary of the properties of a run.                                  *)
(***************************************************************************)
\* the slice executions whose waves were computed
Scheduled(i) == sl[i].pc # "pending" /\ waves[i].tag = "Ok"

\* the pairs Engine::compute_method_waves scheduled for the slice
ScheduledPairs(i) == UNION {Range(waves[i].waves[k]) : k \in DOMAIN waves[i].waves}

\* the wave that holds the pair
WaveIndex(i, pair) == CHOOSE k \in DOMAIN waves[i].waves : pair \in Range(waves[i].waves[k])

\* the pairs whose task has started, and those whose task has returned
Started(i) == DOMAIN sl[i].calls
Returned(i) == DOMAIN sl[i].results \cup DOMAIN sl[i].wave_results

\* the function bound to the pair
BoundTo(pair) == engine.layers[pair[1]].binds[pair[2]]

\* no other slice of the run carries the name of slice i
NameUnique(i) == \A j \in DOMAIN engine.slices : engine.slices[j].name = engine.slices[i].name => j = i

\* the batch of the i-th slice under self.slices.chunks(b): 1..b, b+1..2b, ...
BatchOf(i, b) == ((i - 1) \div b) + 1

RunReturned == pc = "done"

\* the entry is the outcome of the pair's own bound function: an error caused
\* by its failure, or the value it returned
OwnOutcome(i, pair, r) ==
    IF BoundTo(pair).fails
    THEN r.tag = "Err" /\ root_cause(r.error) = ErrorExecutionError("failed")
    ELSE r.tag = "Ok" /\ r.value.arg = sl[i].calls[pair].typed.value

\* the pair's closure ran, succeeded and therefore set its key
Wrote(i, p) == p \in Started(i) /\ ClosureRan(sl[i].calls[p]) /\ ~BoundTo(p).fails

\* the layer, the default and the slice argument of the one pair of the run
ArgLayer == engine.layers["A"]
ArgDefault == ArgLayer.methods_to_defaults["m1"]
ArgSlice == engine.slices[1].methods_per_layer["A"]["m1"]
ArgPair == <<"A", "m1">>
ArgCalled == sl # <<>> /\ ArgPair \in DOMAIN sl[1].calls
ArgCall == sl[1].calls[ArgPair].call

\* the layer was built with Layer::builder from a method declared with args
DeclaredWithArgs ==
    ArgLayer = LayerBuilderBuild("A", {MethodArgs("m1", ArgLayer.binds["m1"])})

ArgReturned == sl # <<>> /\ ArgPair \in DOMAIN sl[1].results

\* the result recorded for a pair of slice i whose task has returned
Recorded(i, p) ==
    IF p \in DOMAIN sl[i].wave_results THEN sl[i].wave_results[p] ELSE sl[i].results[p]

\* what Engine::execute_method returned for the pair
Raw(i, p) == Outcome(sl[i].calls[p])

\* the runs of the engine that have returned: the earlier ones and, once it
\* has returned, the current one
Runs ==
    previous \o (IF RunReturned THEN <<[flags |-> flags, results |-> results]>> ELSE <<>>)

\* the (slice, pair) entries of a RunResults
Entries(r) ==
    UNION {{<<name, p>> : p \in DOMAIN r[name].method_results}
              : name \in {n \in DOMAIN r : r[n].tag = "Ok"}}

\* two RunResults agree on the slices, on the entries, on the Ok/Err status
\* of every entry and on the value of every success
SameClassification(r1, r2) ==
    /\ DOMAIN r1 = DOMAIN r2
    /\ \A name \in DOMAIN r1 : r1[name].tag = r2[name].tag
    /\ Entries(r1) = Entries(r2)
    /\ \A x \in Entries(r1) :
          LET a == r1[x[1]].method_results[x[2]]
              b == r2[x[1]].method_results[x[2]]
          IN a.tag = b.tag /\ (a.tag = "Ok" => a.value = b.value)

\* and on the error of every failure
SameErrors(r1, r2) ==
    \A x \in Entries(r1) \cap Entries(r2) :
        LET a == r1[x[1]].method_results[x[2]]
            b == r2[x[1]].method_results[x[2]]
        IN (a.tag = "Err" /\ b.tag = "Err") => a.error = b.error

\* every bound function of every slice is a function of its argument and of
\* what earlier waves wrote: no pair gets a key that another pair of its own
\* wave or of a later wave sets
ReadsEarlierWaves(e) ==
    \A i \in DOMAIN e.slices :
        LET w == compute_method_waves(e, e.slices[i],
                     topological_sort(e, SetToSeq(DOMAIN e.layers),
                                      SetToSeq(DOMAIN e.dependencies)).order)
            at(p) == CHOOSE k \in DOMAIN w.waves : p \in Range(w.waves[k])
            all == UNION {Range(w.waves[k]) : k \in DOMAIN w.waves}
            bound(p) == p[1] \in DOMAIN e.layers /\ p[2] \in DOMAIN e.layers[p[1]].binds
        IN w.tag = "Ok" =>
              \A p, q \in all :
                  (p # q /\ bound(p) /\ bound(q)
                   /\ e.layers[q[1]].binds[q[2]].key \in e.layers[p[1]].binds[p[2]].reads)
                  => at(q) < at(p)

\* the events collected for the slice of that name, in the order of emission
EventsOf(name) == SelectSeq(observer.events, LAMBDA ev : ev.slice = name)

\* the positions, in the events collected, of the events of that kind for
\* the pair
MethodEvents(name, p, kind) ==
    {k \in DOMAIN observer.events :
        /\ observer.events[k].event = kind
        /\ observer.events[k].slice = name
        /\ observer.events[k].layer = p[1]
        /\ observer.events[k].method = p[2]}

IsMethodEvent(ev) == ev.event \in {"MethodStart", "MethodComplete", "MethodFailed"}

\* the slice's call of execute_slice returned an error of the wave computation
WavesFailed(i) == sl[i].pc # "pending" /\ waves[i].tag = "Err"

\* the answers the caller got from the value it holds
Answered == query.of # None /\ query.answers # {}
Answer == CHOOSE a \in query.answers : TRUE

\* the entries of a RunResults that hold an error
FailedEntries(r) == {x \in Entries(r) : r[x[1]].method_results[x[2]].tag = "Err"}

(***************************************************************************)
(* C11.  During the execution of one slice, no method of wave N+1 starts   *)
(* before every method of wave N has returned, whether with a value or     *)
(* with an error: whenever a pair of the slice has started, every pair of  *)
(* every earlier wave of that slice has returned.  Inside one wave nothing *)
(* orders the methods.                                                     *)
(***************************************************************************)
C11_WaveBarrier ==
    \A i \in DOMAIN sl :
        Scheduled(i) =>
            \A p \in Started(i) : \A q \in ScheduledPairs(i) :
                WaveIndex(i, q) < WaveIndex(i, p) => q \in Returned(i)

\* a method of the second wave runs after the two methods of the first wave
\* returned, one with an error and one with a value
C11_Witness ==
    \E i \in DOMAIN sl :
        /\ Scheduled(i)
        /\ sl[i].wave = 2
        /\ <<"B", "m1">> \in DOMAIN sl[i].running
        /\ {<<"A", "m1">>, <<"A", "m2">>} \subseteq DOMAIN sl[i].results
        /\ sl[i].results[<<"A", "m1">>].tag = "Err"
        /\ sl[i].results[<<"A", "m2">>].tag = "Ok"

(***************************************************************************)
(* C12.  With a batch size B >= 1 configured, the slices are taken in      *)
(* registration order in consecutive batches of B slices (the last one     *)
(* possibly smaller): whenever a slice has started, every slice of every   *)
(* earlier batch has finished.                                             *)
(***************************************************************************)
C12_BatchBarrier ==
    (pc \in {"batch", "done"} /\ config.batch_size # {}) =>
        \A i, j \in DOMAIN sl :
            (sl[j].pc # "pending"
             /\ BatchOf(i, Unwrap(config.batch_size)) < BatchOf(j, Unwrap(config.batch_size)))
            => sl[i].pc = "returned"

\* three slices in batches of two: the third slice runs alone in the last
\* batch, after the first two have finished
C12_Witness ==
    /\ pc = "batch"
    /\ config.batch_size = {2}
    /\ Len(engine.slices) = 3
    /\ sl[3].pc = "running"
    /\ sl[1].pc = "returned" /\ sl[2].pc = "returned"
    /\ DOMAIN results = {engine.slices[1].name, engine.slices[2].name}

C14_FailureDoesNotStopLaterWaves ==
    /\ \A i \in DOMAIN sl :
          (Scheduled(i) /\ sl[i].pc = "returned") =>
              \A p \in ScheduledPairs(i) : \A q \in ScheduledPairs(i) :
                  (p \in DOMAIN sl[i].results /\ sl[i].results[p].tag = "Err"
                   /\ WaveIndex(i, p) < WaveIndex(i, q))
                  => (q \in Started(i) /\ ClosureRan(sl[i].calls[q])
                      /\ q \in DOMAIN sl[i].results)
    /\ RunReturned =>
          \A j \in DOMAIN sl :
              Scheduled(j) => \A q \in ScheduledPairs(j) :
                                  q \in Started(j) /\ ClosureRan(sl[j].calls[q])

\* A.m1 failed in the first wave of the first slice; B depends on A, and
\* B.m1 was invoked in the second wave; the second slice ran too
C14_Witness ==
    /\ RunReturned
    /\ Len(engine.slices) = 2
    /\ "B" \in DOMAIN engine.dependencies
    /\ Scheduled(1) /\ Scheduled(2)
    /\ <<"A", "m1">> \in DOMAIN sl[1].results
    /\ sl[1].results[<<"A", "m1">>].tag = "Err"
    /\ <<"B", "m1">> \in Started(1)
    /\ WaveIndex(1, <<"B", "m1">>) = 2
    /\ ClosureRan(sl[1].calls[<<"B", "m1">>])
    /\ <<"B", "m1">> \in Started(2)

(***************************************************************************)
(* C15.  Argument resolution for an explicit (non-null) slice argument:    *)
(* when the layer's default and the slice's argument are both objects, the *)
(* bound function receives the object holding every key of either, with   *)
(* the slice's value for each key of the slice argument and the default's  *)
(* value for the other keys (top-level keys only, a nested object is       *)
(* replaced whole); when the slice's argument is not an object, or the     *)
(* default is not an object, the function receives the slice's argument    *)
(* unchanged.                                                              *)
(***************************************************************************)
C15_ExplicitArgument ==
    (ArgCalled /\ ~is_null(ArgSlice)) =>
        /\ ArgCall.invoked
        /\ IF "m1" \in DOMAIN ArgLayer.methods_to_defaults
              /\ ArgDefault.kind = "Object" /\ ArgSlice.kind = "Object"
           THEN /\ ArgCall.args.kind = "Object"
                /\ DOMAIN ArgCall.args.fields = DOMAIN ArgDefault.fields \cup DOMAIN ArgSlice.fields
                /\ \A k \in DOMAIN ArgSlice.fields : ArgCall.args.fields[k] = ArgSlice.fields[k]
                /\ \A k \in DOMAIN ArgDefault.fields \ DOMAIN ArgSlice.fields :
                       ArgCall.args.fields[k] = ArgDefault.fields[k]
           ELSE ArgCall.args = ArgSlice

\* the default {a: {x:1}, b: 2} and the slice argument {a: {x:2, y:1}}: the
\* nested object under a is the slice's, b is the default's
C15_Witness ==
    /\ ArgCalled
    /\ "m1" \in DOMAIN ArgLayer.methods_to_defaults
    /\ ArgDefault = Object(("a" :> Object("x" :> Num(1))) @@ ("b" :> Num(2)))
    /\ ArgSlice = Object("a" :> Object(("x" :> Num(2)) @@ ("y" :> Num(1))))
    /\ ArgCall.invoked
    /\ ArgCall.args = Object(("a" :> Object(("x" :> Num(2)) @@ ("y" :> Num(1)))) @@ ("b" :> Num(2)))

(***************************************************************************)
(* C16.  When a slice supplies the null argument for a bound method that   *)
(* has a declared default, the bound function is invoked with exactly the  *)
(* layer's declared default argument, unmodified.                          *)
(***************************************************************************)
C16_NullTakesDefault ==
    (ArgCalled /\ is_null(ArgSlice) /\ "m1" \in DOMAIN ArgLayer.methods_to_defaults) =>
        /\ ArgCall.invoked
        /\ ArgCall.args = ArgDefault

\* the declared default is an object and the function received it
C16_Witness ==
    /\ ArgCalled
    /\ is_null(ArgSlice)
    /\ "m1" \in DOMAIN ArgLayer.methods_to_defaults
    /\ ArgDefault = Object(("a" :> Num(1)) @@ ("b" :> Object("x" :> Num(1))))
    /\ ArgCall.invoked
    /\ ArgCall.args = ArgDefault
    /\ ClosureRan(sl[1].calls[ArgPair])

(***************************************************************************)
(* C17.  As stated: when a slice supplies the null argument for a bound    *)
(* method that was declared without a default argument                     *)
(* (MethodBuilderArgsStep::args), the bound function is not invoked and    *)
(* that pair's result is a configuration error.                            *)
(***************************************************************************)
C17_Original ==
    (ArgReturned /\ is_null(ArgSlice) /\ DeclaredWithArgs) =>
        /\ ~ArgCall.invoked
        /\ sl[1].results[ArgPair].tag = "Err"
        /\ root_cause(sl[1].results[ArgPair].error).kind = "ConfigError"

(***************************************************************************)
(* C17, amended.  A method declared with MethodBuilderArgsStep::args has   *)
(* Value::Null as its stored default.  When a slice supplies the null      *)
(* argument for it, the bound function is invoked with Value::Null: if the *)
(* argument type of the method decodes null, the closure runs and the      *)
(* pair's result is the closure's own outcome; if it does not, the closure *)
(* does not run and the result is the decoder's configuration error.  The  *)
(* configuration error "method with no defaults called with null" is the   *)
(* result only for a bound method without an entry in the layer's          *)
(* methods_to_defaults, and then the bound function is not invoked.        *)
(***************************************************************************)
C17_NullWithoutDefault ==
    (ArgReturned /\ is_null(ArgSlice)) =>
        LET r == sl[1].results[ArgPair]
            f == ArgLayer.binds["m1"]
        IN /\ DeclaredWithArgs =>
                /\ ArgCall.invoked
                /\ ArgCall.args = Null
                /\ IF f.A = "Value"
                   THEN /\ ClosureRan(sl[1].calls[ArgPair])
                        /\ IF f.fails
                           THEN r.tag = "Err" /\ root_cause(r.error).kind = "ExecutionError"
                           ELSE r.tag = "Ok" /\ r.value.arg = Null
                   ELSE /\ ~ClosureRan(sl[1].calls[ArgPair])
                        /\ r.tag = "Err"
                        /\ root_cause(r.error) = ErrorConfigError("Expected i64")
           /\ "m1" \notin DOMAIN ArgLayer.methods_to_defaults =>
                /\ ~ArgCall.invoked
                /\ r.tag = "Err"
                /\ root_cause(r.error) =
                       ErrorConfigError("method with no defaults called with null")

\* declared with args::<Value>(), invoked by call_default: the closure ran
\* with null and its value is the pair's result
C17_Witness ==
    /\ ArgReturned
    /\ is_null(ArgSlice)
    /\ DeclaredWithArgs
    /\ ArgLayer.binds["m1"].A = "Value"
    /\ ArgCall.invoked
    /\ ClosureRan(sl[1].calls[ArgPair])
    /\ sl[1].results[ArgPair].tag = "Ok"

(***************************************************************************)
(* C18.  Each slice execution gets its own, initially empty Context: for   *)
(* any two slices of a run, in any interleaving and batch/chunk            *)
(* configuration, a value written into the Context by a method of one      *)
(* slice is never returned by a Context read made by a method of the other *)
(* slice.                                                                  *)
(***************************************************************************)
C18_ContextIsolation ==
    \A i \in DOMAIN sl : \A p \in DOMAIN sl[i].calls :
        \A k \in DOMAIN sl[i].calls[p].seen : sl[i].calls[p].seen[k].slice = i

\* two slices of one batch have both read the key and then set it, each in
\* its own store, and neither read returned anything
C18_Witness ==
    /\ pc = "batch"
    /\ Len(engine.slices) >= 2
    /\ batch.lo = 1 /\ batch.hi >= 2
    /\ \A i \in {1, 2} :
          /\ <<"A", "m1">> \in DOMAIN sl[i].results
          /\ sl[i].calls[<<"A", "m1">>].seen = EmptyMap
          /\ "a1" \in DOMAIN ctx[i]
          /\ ctx[i]["a1"].slice = i

(***************************************************************************)
(* C19.  Inside one slice, every Context write made by a method of wave k  *)
(* is observed by every method of every later wave of that slice (no       *)
(* method overwrites or removes another's key here): a layer always reads  *)
(* the values written by the layers it depends on.                         *)
(***************************************************************************)
C19_LaterWavesObserveWrites ==
    \A i \in DOMAIN sl :
        Scheduled(i) =>
            \A q \in Started(i) : \A p \in ScheduledPairs(i) :
                (ClosureRan(sl[i].calls[q]) /\ WaveIndex(i, p) < WaveIndex(i, q)
                 /\ Wrote(i, p) /\ BoundTo(p).key \in BoundTo(q).reads)
                => /\ BoundTo(p).key \in DOMAIN sl[i].calls[q].seen
                   /\ sl[i].calls[q].seen[BoundTo(p).key] =
                          [value |-> sl[i].calls[p].typed.value, slice |-> i, pair |-> p]

\* B depends on A; B.m1 ran in the second wave and read what A.m1 and A.m2
\* had set in the first
C19_Witness ==
    \E i \in DOMAIN sl :
        /\ Scheduled(i)
        /\ "B" \in DOMAIN engine.dependencies
        /\ <<"B", "m1">> \in Started(i)
        /\ WaveIndex(i, <<"B", "m1">>) = 2
        /\ DOMAIN sl[i].calls[<<"B", "m1">>].seen = {"a1", "a2"}
        /\ sl[i].calls[<<"B", "m1">>].seen["a1"].pair = <<"A", "m1">>
        /\ sl[i].calls[<<"B", "m1">>].seen["a2"].pair = <<"A", "m2">>

(***************************************************************************)
(* C20.  For a fixed engine whose methods are deterministic and whose      *)
(* slice names are distinct, the content of RunResults (the set of slice   *)
(* names, each slice's Ok/Err status, and every (layer, method) outcome    *)
(* and value) is the same for every batch size B >= 1 and every chunk size *)
(* C >= 1 as for the unbatched, unchunked run: it is what the engine       *)
(* yields when it runs one task at a time.                                 *)
(***************************************************************************)
C20_BatchingTransparent ==
    (RunReturned /\ \A i \in DOMAIN engine.slices : NameUnique(i)) =>
        results = SequentialRun(engine, flags.with_observer)

\* three slices of distinct names, one of them unschedulable, in batches of
\* two and chunks of two
C20_Witness ==
    /\ RunReturned
    /\ \A i \in DOMAIN engine.slices : NameUnique(i)
    /\ Len(engine.slices) = 3
    /\ config.batch_size = {2}
    /\ config.chunk_size = 2
    /\ DOMAIN results = {"s1", "s2", "s3"}
    /\ \E n \in DOMAIN results : results[n].tag = "Err"
    /\ \E n \in DOMAIN results : results[n].tag = "Ok" /\ DOMAIN results[n].method_results # {}

(***************************************************************************)
(* C21.  Running the same engine with observation enabled and with         *)
(* observation disabled yields the same result content: for every (slice,  *)
(* layer, method) entry the same Ok/Err status, the same value on success  *)
(* and the same error on failure.                                          *)
(***************************************************************************)
C21_ObservationTransparent ==
    ReadsEarlierWaves(engine) =>
        \A j, k \in DOMAIN Runs :
            Runs[j].flags.with_observer # Runs[k].flags.with_observer =>
                /\ SameClassification(Runs[j].results, Runs[k].results)
                /\ SameErrors(Runs[j].results, Runs[k].results)

(***************************************************************************)
(* C22.  With observation enabled, the error recorded for a failed pair is *)
(* always a MethodExecutionFailed whose cause is not wrapped a second time *)
(* by the engine: an error that is not MethodExecutionFailed is wrapped    *)
(* exactly once with the slice, layer and method names, and an error that  *)
(* is already MethodExecutionFailed is recorded unchanged.                 *)
(***************************************************************************)
C22_NoDoubleWrapping ==
    flags.with_observer =>
        \A i \in DOMAIN sl : \A p \in Returned(i) :
            Raw(i, p).tag = "Err" =>
                /\ Recorded(i, p).tag = "Err"
                /\ is_execution_error(Recorded(i, p).error)
                /\ IF is_execution_error(Raw(i, p).error)
                   THEN Recorded(i, p).error = Raw(i, p).error
                   ELSE /\ Recorded(i, p).error.cause = Raw(i, p).error
                        /\ Recorded(i, p).error.slice = engine.slices[i].name
                        /\ Recorded(i, p).error.layer = p[1]
                        /\ Recorded(i, p).error.method = p[2]

\* an observed slice in which A.m1 returned an error that already carried a
\* context, B.m1 returned an ExecutionError, and both results are recorded
C22_Witness ==
    /\ flags.with_observer
    /\ sl # <<>>
    /\ {<<"A", "m1">>, <<"B", "m1">>} \subseteq DOMAIN sl[1].results
    /\ Raw(1, <<"A", "m1">>) = ValueErr(WrappedError)
    /\ sl[1].results[<<"A", "m1">>].error = WrappedError
    /\ Raw(1, <<"B", "m1">>) = ValueErr(ErrorExecutionError("failed"))
    /\ sl[1].results[<<"B", "m1">>].error.cause = ErrorExecutionError("failed")

(***************************************************************************)
(* C23.  With observation enabled, the argument stored in the              *)
(* MethodExecutionFailed wrapper of a failed pair is the resolved argument *)
(* that was passed to the bound function: the layer's default when the     *)
(* slice supplied null, and the default merged with the slice's override   *)
(* when both are objects.                                                  *)
(***************************************************************************)
C23_WrapperHoldsResolvedArgument ==
    flags.with_observer =>
        \A i \in DOMAIN sl : \A p \in Returned(i) :
            (/\ sl[i].calls[p].call.invoked
             /\ Raw(i, p).tag = "Err"
             /\ ~is_execution_error(Raw(i, p).error))
            => Recorded(i, p).error.args = sl[i].calls[p].call.args

(***************************************************************************)
(* C24.  With observation enabled, for every successfully scheduled slice  *)
(* the event sequence is: SliceStart of the slice first, then all          *)
(* MethodStart / MethodComplete / MethodFailed events of the slice's       *)
(* pairs, then exactly one SliceComplete of the slice last; no method      *)
(* event of a slice is emitted before its SliceStart or after its          *)
(* SliceComplete.                                                          *)
(***************************************************************************)
C24_SliceLifecycle ==
    flags.with_observer =>
        \A i \in DOMAIN sl :
            LET name == engine.slices[i].name
                E == EventsOf(name)
            IN /\ sl[i].pc = "pending" => E = <<>>
               /\ Scheduled(i) =>
                     /\ E # <<>>
                     /\ E[1] = SliceStart(name)
                     /\ \A k \in 2..Len(E) : E[k].event # "SliceStart"
                     /\ \A k \in DOMAIN E :
                           E[k].event = "SliceComplete" => k = Len(E) /\ sl[i].pc = "returned"
                     /\ \A k \in DOMAIN E :
                           IsMethodEvent(E[k]) => <<E[k].layer, E[k].method>> \in ScheduledPairs(i)
                     /\ sl[i].pc = "returned" =>
                           /\ E[Len(E)] = SliceComplete(name)
                           /\ \A p \in ScheduledPairs(i) :
                                 /\ MethodEvents(name, p, "MethodStart") # {}
                                 /\ MethodEvents(name, p, "MethodComplete")
                                    \cup MethodEvents(name, p, "MethodFailed") # {}

\* two observed slices have returned, and the events of the second were
\* collected between those of the first
C24_Witness ==
    /\ flags.with_observer
    /\ RunReturned
    /\ Len(engine.slices) = 2
    /\ \A i \in DOMAIN sl : Scheduled(i)
    /\ \E a, b, c \in DOMAIN observer.events :
          /\ a < b /\ b < c
          /\ observer.events[a] = SliceStart("s1")
          /\ observer.events[b].slice = "s2"
          /\ observer.events[c] = SliceComplete("s1")
    /\ Len(EventsOf("s1")) = 4
    /\ Len(EventsOf("s2")) = 4

(***************************************************************************)
(* C25.  With observation enabled, every scheduled (slice, layer, method)  *)
(* pair produces exactly one MethodStart, followed by exactly one terminal *)
(* event: MethodComplete if and only if the pair's recorded result is a    *)
(* value, MethodFailed if and only if it is an error; across a run the     *)
(* number of MethodComplete plus MethodFailed events equals the number of  *)
(* result entries.                                                         *)
(***************************************************************************)
C25_MethodEvents ==
    flags.with_observer =>
        /\ \A i \in DOMAIN sl : Scheduled(i) => \A p \in ScheduledPairs(i) :
              LET name == engine.slices[i].name
                  starts == MethodEvents(name, p, "MethodStart")
                  completes == MethodEvents(name, p, "MethodComplete")
                  failures == MethodEvents(name, p, "MethodFailed")
              IN /\ Cardinality(starts) = IF p \in Started(i) THEN 1 ELSE 0
                 /\ Cardinality(completes \cup failures) = IF p \in Returned(i) THEN 1 ELSE 0
                 /\ \A a \in starts, b \in completes \cup failures : a < b
                 /\ p \in Returned(i) =>
                       /\ completes # {} <=> Recorded(i, p).tag = "Ok"
                       /\ failures # {} <=> Recorded(i, p).tag = "Err"
                       /\ \A b \in failures :
                             observer.events[b].error = to_string(Recorded(i, p).error)
        /\ RunReturned =>
              Cardinality({k \in DOMAIN observer.events :
                              observer.events[k].event \in {"MethodComplete", "MethodFailed"}})
              = Cardinality(Entries(results))

\* an observed run has returned: the method of its first slice succeeded,
\* the method of its second slice is not bound
C25_Witness ==
    /\ flags.with_observer
    /\ RunReturned
    /\ DOMAIN results = {"s1", "s2"}
    /\ results["s1"].tag = "Ok"
    /\ results["s1"].method_results[<<"A", "m1">>].tag = "Ok"
    /\ results["s2"].tag = "Ok"
    /\ <<"A", "m3">> \in DOMAIN results["s2"].method_results
    /\ \E k \in DOMAIN observer.events :
          observer.events[k] =
              MethodFailed("s2", "A", "m3",
                           "Method execution failed in slice 's2', layer 'A', method 'm3'")
    /\ \E k \in DOMAIN observer.events : observer.events[k] = MethodComplete("s1", "A", "m1")

(***************************************************************************)
(* C26.  When wave computation fails for a slice, that slice's entry in    *)
(* RunResults is a slice-level error (ConfigError), none of that slice's   *)
(* methods is invoked, and every other slice of the run is still executed  *)
(* and reported with its own result.                                       *)
(***************************************************************************)
C26_WaveFailureIsSliceError ==
    /\ \A i \in DOMAIN sl : WavesFailed(i) =>
          /\ Started(i) = {}
          /\ sl[i].ret.tag = "Err"
          /\ sl[i].ret.error.kind = "ConfigError"
    /\ (RunReturned /\ \E i \in DOMAIN sl : WavesFailed(i)) =>
          \A j \in DOMAIN sl : NameUnique(j) =>
              LET r == results[engine.slices[j].name]
              IN IF WavesFailed(j)
                 THEN r.tag = "Err" /\ r.error.kind = "ConfigError"
                 ELSE /\ r.tag = "Ok"
                      /\ DOMAIN r.method_results = ScheduledPairs(j)
                      /\ Started(j) = ScheduledPairs(j)
                      /\ \A p \in ScheduledPairs(j) : r.method_results[p] = Recorded(j, p)
                      /\ r = SequentialSlice(engine, engine.slices[j], sorted.order,
                                             flags.with_observer)

\* a run of three slices of distinct names has returned: the wave
\* computation of the second failed, the first and the third ran their method
C26_Witness ==
    /\ RunReturned
    /\ Len(engine.slices) = 3
    /\ \A i \in DOMAIN sl : NameUnique(i)
    /\ WavesFailed(2)
    /\ results[engine.slices[2].name].tag = "Err"
    /\ \A j \in {1, 3} :
          /\ results[engine.slices[j].name].tag = "Ok"
          /\ results[engine.slices[j].name].method_results[<<"A", "m1">>].tag = "Ok"

(***************************************************************************)
(* C29.  Running the same engine twice with the same flags over the same   *)
(* slice set, with bound methods that are deterministic functions of their *)
(* argument and of the Context written by earlier waves, yields for every  *)
(* (slice, layer, method) entry the same success/failure classification    *)
(* and the same value, under every interleaving of the parallel tasks.     *)
(***************************************************************************)
C29_RunsAgree ==
    ReadsEarlierWaves(engine) =>
        \A j, k \in DOMAIN Runs :
            Runs[j].flags = Runs[k].flags =>
                SameClassification(Runs[j].results, Runs[k].results)

\* two runs with the same flags have returned; in both, B.m1 ran in the
\* second wave and returned what A.m1 and A.m2 had written
C29_Witness ==
    /\ Len(Runs) >= 2
    /\ Runs[1].flags = Runs[2].flags
    /\ ReadsEarlierWaves(engine)
    /\ "s1" \in DOMAIN Runs[2].results
    /\ Runs[2].results["s1"].tag = "Ok"
    /\ <<"B", "m1">> \in DOMAIN Runs[2].results["s1"].method_results
    /\ Runs[2].results["s1"].method_results[<<"B", "m1">>].tag = "Ok"
    /\ Runs[2].results["s1"].method_results[<<"B", "m1">>].value.read
       = ("a1" :> {Num(1)}) @@ ("a2" :> {Null})
    /\ Runs[1].results = Runs[2].results

(***************************************************************************)
(* C27.  For an engine built with EngineBuilder::init_layer, in every      *)
(* slice that invokes the initializer layer, every method of the           *)
(* initializer layer has returned before any method of any other layer of  *)
(* that slice starts, whatever other dependency edges are declared.        *)
(***************************************************************************)
C27_InitializerReturnsFirst ==
    (pc \notin {"builder", "build_failed"} /\ engine.init_layer # None) =>
        \A i \in DOMAIN sl :
            has_layer(engine.slices[i], engine.init_layer) =>
                \A p \in Started(i) :
                    p[1] # engine.init_layer =>
                        \A m \in DOMAIN engine.slices[i].methods_per_layer[engine.init_layer] :
                            <<engine.init_layer, m>> \in Returned(i)

\* the engine was built with B as initializer and with "A depends on C"; its
\* slice invokes A, B and C, the run has returned, and A.m1 started in the
\* last wave
C27_Witness ==
    /\ RunReturned
    /\ engine.init_layer = "B"
    /\ "A" \in DOMAIN engine.dependencies
    /\ Range(engine.dependencies["A"]) = {"B", "C"}
    /\ DOMAIN sl[1].results = {<<"A", "m1">>, <<"A", "m2">>, <<"B", "m1">>, <<"C", "m1">>}
    /\ WaveIndex(1, <<"B", "m1">>) = 1
    /\ WaveIndex(1, <<"A", "m1">>) = 3
    /\ sl[1].calls[<<"C", "m1">>].seen = ("b1" :> [value |-> Null, slice |-> 1, pair |-> <<"B", "m1">>])

(***************************************************************************)
(* C28.  For every error e and every number of nested with_context         *)
(* wrappers around it, root_cause() returns the innermost error, which is  *)
(* never a MethodExecutionFailed, and message() returns the same text as   *)
(* the innermost error's message; wrapping once more changes neither,      *)
(* while is_execution_error() is true and execution_context() returns the  *)
(* outermost wrapper's slice, layer, method and args.                      *)
(***************************************************************************)
C28_ErrorQueries ==
    (query.of = "Error" /\ Answered) =>
        LET n == Len(query.contexts)
        IN /\ Answer.root_cause = query.base
           /\ Answer.root_cause.kind # "MethodExecutionFailed"
           /\ Answer.message = message(query.base)
           /\ Answer.message = IF query.base.kind = "ExecutionError" THEN query.base.msg
                                ELSE to_string(query.base)
           /\ Answer.is_execution_error <=> n > 0
           /\ Answer.execution_context = IF n > 0 THEN {query.contexts[n]} ELSE {}
           /\ \A c \in Contexts :
                 LET once_more == with_context(query.error, c[1], c[2], c[3], c[4])
                 IN /\ root_cause(once_more) = Answer.root_cause
                    /\ message(once_more) = Answer.message
                    /\ is_execution_error(once_more)
                    /\ execution_context(once_more) = {c}

\* an ExecutionError wrapped twice, with two different contexts, and queried
C28_Witness ==
    /\ query.of = "Error"
    /\ Answered
    /\ query.base = ErrorExecutionError("root problem")
    /\ query.contexts = << <<"s1", "A", "m1", Null>>, <<"s2", "B", "m1", Num(1)>> >>
    /\ query.error.cause.cause = query.base
    /\ Answer.message = "root problem"
    /\ Answer.execution_context = {<<"s2", "B", "m1", Num(1)>>}
    /\ Answer.to_string = "Method execution failed in slice 's2', layer 'B', method 'm1'"

(***************************************************************************)
(* C30.  For every RunResults map, the derived queries agree with a scan   *)
(* of the map: successful_slices + failed_slices = total_slices;           *)
(* successful_methods + failed_methods = total_methods, counted over the   *)
(* Ok slices only; is_all_success() is the negation of has_failures(); and *)
(* get_all_method_errors() has exactly failed_methods() entries, one per   *)
(* failed (slice, layer, method).                                          *)
(***************************************************************************)
C30_DerivedQueries ==
    (query.of = "RunResults" /\ Answered) =>
        LET errors == Answer.get_all_method_errors
        IN /\ Answer.total_slices = Cardinality(DOMAIN results)
           /\ Answer.successful_slices + Answer.failed_slices = Answer.total_slices
           /\ Answer.failed_slices = Cardinality({n \in DOMAIN results : results[n].tag = "Err"})
           /\ Answer.total_methods = Cardinality(Entries(results))
           /\ Answer.successful_methods + Answer.failed_methods = Answer.total_methods
           /\ Answer.failed_methods = Cardinality(FailedEntries(results))
           /\ Answer.is_all_success <=> ~Answer.has_failures
           /\ Len(errors) = Answer.failed_methods
           /\ {errors[j] : j \in DOMAIN errors}
              = {<<x[1], x[2][1], x[2][2], results[x[1]].method_results[x[2]].error>>
                    : x \in FailedEntries(results)}

\* a RunResults with a slice-level error and an Ok slice that holds a value
\* and an error, queried
C30_Witness ==
    /\ query.of = "RunResults"
    /\ Answered
    /\ DOMAIN results = {"s1", "s2"}
    /\ results["s1"].tag = "Err"
    /\ results["s2"].tag = "Ok"
    /\ DOMAIN results["s2"].method_results = ResultPairs
    /\ results["s2"].method_results[<<"A", "m1">>].tag = "Ok"
    /\ results["s2"].method_results[<<"B", "m1">>].tag = "Err"
    /\ Answer.total_methods = Cardinality(ResultPairs)
    /\ Len(Answer.get_all_method_errors) = Answer.failed_slices
    /\ Answer.has_failures
    /\ ~Answer.is_all_success

\* the slices of the run whose execute_slice returned Ok, and Err
SlicesOk == {i \in DOMAIN sl : sl[i].ret.tag = "Ok"}
SlicesErr == {i \in DOMAIN sl : sl[i].ret.tag = "Err"}

\* a progress line that reports everything done was printed
FinalRender == \E j \in DOMAIN tracker.lines : tracker.lines[j].newline

(***************************************************************************)
(* C31.  In every progress-rendering run (RunFlags.silent = false, with    *)
(* either value of with_observer), once all slices have finished the       *)
(* tracker's counters satisfy completed + failed = number of registered    *)
(* slices, completed counts the slices whose result is Ok and failed those *)
(* with a slice-level error, and the final progress line has been          *)
(* rendered.                                                               *)
(***************************************************************************)
C31_ProgressCounters ==
    (RunReturned /\ ~flags.silent) =>
        /\ tracker.completed + tracker.failed = Len(engine.slices)
        /\ tracker.completed = Cardinality(SlicesOk)
        /\ tracker.failed = Cardinality(SlicesErr)
        /\ FinalRender

\* the (layer, method) pairs the slice declares, on registered layers or not
DeclaredPairs(slice) ==
    UNION {{<<l, m>> : m \in DOMAIN slice.methods_per_layer[l]} :
           l \in DOMAIN slice.methods_per_layer}

(***************************************************************************)
(* C32.  For every successfully scheduled slice, the keys of its result    *)
(* map are exactly the (layer, method) pairs the slice declares, one entry *)
(* per pair; a pair whose layer is not registered in the engine is         *)
(* recorded as a LayerNotFound error rather than being left out.           *)
(***************************************************************************)
C32_ResultKeysAreDeclaredPairs ==
    RunReturned =>
        \A i \in DOMAIN sl :
            sl[i].ret.tag = "Ok" =>
                /\ DOMAIN sl[i].ret.method_results = DeclaredPairs(engine.slices[i])
                /\ \A p \in DeclaredPairs(engine.slices[i]) :
                      p[1] \notin DOMAIN engine.layers =>
                          LET r == sl[i].ret.method_results[p]
                          IN r.tag = "Err" /\ root_cause(r.error) = ErrorLayerNotFound(p[1])

\* the names of the registered slices
RegisteredSliceNames == {engine.slices[i].name : i \in DOMAIN engine.slices}

\* Engine::run has returned a RunResults that holds every registered slice
\* name and no other, every slice of every batch having finished
ReturnedAll ==
    /\ RunReturned
    /\ DOMAIN sl = DOMAIN engine.slices
    /\ \A i \in DOMAIN sl : sl[i].pc = "returned"
    /\ DOMAIN results = RegisteredSliceNames

(***************************************************************************)
(* C33.  If every bound method terminates, Engine::run terminates and      *)
(* returns, and only after every slice of every batch has finished; the    *)
(* returned RunResults has an entry for every registered slice name, and   *)
(* no entry under any other name.                                          *)
(***************************************************************************)
C33_RunReturnsAll == <>[]ReturnedAll

\* the layers of the slice that compute_method_waves starts from
Participating(e, slice) == DOMAIN slice.methods_per_layer \cap DOMAIN e.layers

(***************************************************************************)
(* C34.  For an engine whose dependency graph is acyclic and references    *)
(* only registered layers, compute_method_waves never fails with "Unable   *)
(* to compute method waves" for any slice, including a slice that invokes  *)
(* only a subset of the registered layers (a layer without the layer it    *)
(* depends on) and a slice that lists a layer with an empty method set.    *)
(***************************************************************************)
C34_WavesNeverFail ==
    \A i \in DOMAIN waves :
        (/\ WavesReturned(i)
         /\ ~Cyclic(Edges(engine.dependencies))
         /\ EndpointsRegistered(engine))
        => waves[i] # WavesErr("ConfigError", "Unable to compute method waves")

\* C35: compute_method_waves terminates for every slice and every dependency
\* map, cyclic or not: an iteration of its loop removes at least one layer
\* from the remaining set or returns the scheduling error, so the body is
\* entered at most as many times as the slice has participating layers, and
\* the call returns.
C35_WaveLoopTerminates ==
    /\ [](loop.pc = "while" =>
            loop.iterations + Cardinality(loop.remaining_layers)
                <= Cardinality(Participating(engine, engine.slices[1])))
    /\ [](loop.pc = "returned" =>
            loop.iterations <= Cardinality(Participating(engine, engine.slices[1])))
    /\ <>(loop.pc = "returned")

\* a cyclic dependency map: a first wave is emitted, the second iteration
\* finds no eligible layer and the call returns the scheduling error
C35_Witness ==
    /\ Cyclic(Edges(engine.dependencies))
    /\ loop.pc = "returned"
    /\ loop.iterations = 2
    /\ Len(loop.waves) = 1
    /\ waves[1] = WavesErr("ConfigError", "Unable to compute method waves")

(***************************************************************************)
(* Vocabulary of C36: the terminal events of a slice.                      *)
(***************************************************************************)
\* the positions, in the events collected, of the SliceComplete and
\* SliceFailed events of the slice of that name
TerminalEvents(name) ==
    {k \in DOMAIN observer.events :
        /\ observer.events[k].event \in {"SliceComplete", "SliceFailed"}
        /\ observer.events[k].slice = name}

StartEvents(name) ==
    {k \in DOMAIN observer.events : observer.events[k] = SliceStart(name)}

\* C36: with observation enabled, every SliceStart event is followed by
\* exactly one terminal slice event of the same slice, SliceComplete or
\* SliceFailed, also when the execution of the slice is aborted by a failure
\* of the wave computation: a slice never has two terminal events, none
\* precedes its SliceStart, and once the run has returned every slice that
\* started has one.
C36_SliceStartTerminated ==
    flags.with_observer =>
        \A i \in DOMAIN engine.slices :
            LET name == engine.slices[i].name
            IN /\ Cardinality(TerminalEvents(name)) <= 1
               /\ \A k \in TerminalEvents(name) : \E j \in StartEvents(name) : j < k
               /\ (RunReturned /\ StartEvents(name) # {}) =>
                     Cardinality(TerminalEvents(name)) = 1

(***************************************************************************)
(* Vocabulary of C37 and C38: the pairs of a slice whose bound function    *)
(* the engine can reach.                                                   *)
(***************************************************************************)
\* the scheduled pairs of slice i whose layer binds a function to the method
BoundPairs(i) ==
    {p \in ScheduledPairs(i) :
        /\ p[1] \in DOMAIN engine.layers
        /\ p[2] \in DOMAIN engine.layers[p[1]].binds}

\* the pairs of slice i whose bound function was entered
InvokedPairs(i) == {p \in DOMAIN sl[i].calls : sl[i].calls[p].call.invoked}

\* C37: with observation disabled (RunFlags.with_observer = false) no
\* registered observer callback is invoked for any slice or method during the
\* run, in silent and in progress-rendering mode alike, while the bound
\* function of every scheduled method is still invoked.
C37_NoEventsWithoutObservation ==
    ~flags.with_observer =>
        /\ observer.events = <<>>
        /\ \A i \in DOMAIN sl :
              (sl[i].pc = "returned" /\ Scheduled(i)) => BoundPairs(i) \subseteq InvokedPairs(i)
        /\ RunReturned => \A i \in DOMAIN engine.slices : i \in DOMAIN sl /\ sl[i].pc = "returned"

\* a progress-rendering run without observation has returned: the observer
\* holds a callback, two slices were scheduled and their methods invoked
C37_Witness ==
    /\ flags = PROGRESS_NO_OBSERVER
    /\ observer.callbacks # <<>>
    /\ RunReturned
    /\ \E i, j \in DOMAIN sl :
          /\ i # j
          /\ Scheduled(i) /\ Scheduled(j)
          /\ InvokedPairs(i) # {} /\ InvokedPairs(j) # {}

\* C38: in one run the bound function of every scheduled (slice, layer,
\* method) pair is invoked exactly once, never twice and never skipped, for
\* every batch size, chunk size and worker-pool configuration and under every
\* interleaving: no pair is ever counted twice, only scheduled pairs are
\* invoked, and a slice that has returned has invoked each of its pairs once.
C38_InvokedExactlyOnce ==
    \A i \in DOMAIN sl :
        /\ \A p \in DOMAIN sl[i].invocations :
              /\ sl[i].invocations[p] = 1
              /\ waves[i].tag = "Ok" /\ p \in BoundPairs(i)
        /\ (sl[i].pc = "returned" /\ Scheduled(i)) =>
              \A p \in BoundPairs(i) :
                  p \in DOMAIN sl[i].invocations /\ sl[i].invocations[p] = 1

\* a run of three slices in batches of two, chunked by two, has returned, and
\* the three bound functions were entered
C38_Witness ==
    /\ RunReturned
    /\ config.batch_size = {2}
    /\ config.chunk_size = 2
    /\ Len(engine.slices) = 3
    /\ \A i \in DOMAIN sl : Scheduled(i) /\ DOMAIN sl[i].invocations = {<<"A", "m1">>}

(***************************************************************************)
(* Vocabulary of C39: who writes a key of the Context.                     *)
(***************************************************************************)
\* the positions of the program of task t that write or erase the key
Touches(t, k) ==
    {j \in DOMAIN tasks[t].program :
        \/ tasks[t].program[j].op = "clear"
        \/ /\ tasks[t].program[j].key = k
           /\ tasks[t].program[j].op \in {"set", "set_next", "remove"}}

\* the last thing task t does to the key is Context::set(k, Written(t))
SetsLast(t, k) ==
    /\ Touches(t, k) # {}
    /\ LET last == CHOOSE j \in Touches(t, k) : \A i \in Touches(t, k) : i <= j
       IN tasks[t].program[last] = [op |-> "set", key |-> k]

\* every task of the wave has finished its program
WaveFinished == \A t \in DOMAIN tasks : tasks[t].ip > Len(tasks[t].program)

\* C39: each Context operation takes effect under the lock (a write guard
\* excludes every other guard, read guards are shared), and the clones of a
\* Context alias one store: when the methods of a wave set different keys,
\* every such key is present in the slice's Context with the value its
\* method wrote once the wave has finished.
C39_ContextSharedUnderLock ==
    /\ \A h \in DOMAIN rwlock :
          /\ Cardinality(rwlock[h].writer) <= 1
          /\ rwlock[h].writer # {} => rwlock[h].readers = {}
          /\ \A t \in DOMAIN tasks :
                /\ t \in rwlock[h].writer <=> (tasks[t].data = h /\ tasks[t].guard = "write")
                /\ t \in rwlock[h].readers <=> (tasks[t].data = h /\ tasks[t].guard = "read")
    /\ WaveFinished =>
          \A k \in ContextKeys : \A t \in DOMAIN tasks :
              (/\ SetsLast(t, k)
               /\ \A u \in DOMAIN tasks \ {t} : Touches(u, k) = {})
              => /\ k \in DOMAIN ctx[SliceContext]
                 /\ ctx[SliceContext][k] = Written(t)

\* a get followed by a set is not atomic: task 1 got the key while it was
\* absent, its sibling set the key, and task 1 then set it from what it had
\* got, so that the wave finished without the sibling's value
C39_Witness ==
    /\ WaveFinished
    /\ tasks[1].program = <<[op |-> "get", key |-> "a"], [op |-> "set_next", key |-> "a"]>>
    /\ tasks[2].program = <<[op |-> "set", key |-> "a"], [op |-> "set", key |-> "b"]>>
    /\ tasks[1].local = {}
    /\ ctx[SliceContext] = ("a" :> Num(1)) @@ ("b" :> Written(2))

\* C40: after any sequence of EngineConfig setter calls the stored chunk_size
\* is at least 1, and Engine::run returns a RunResults normally for every
\* batch_size value that EngineConfig::batch_size accepts, 0 included: a run
\* never terminates abnormally because of a configuration value that
\* construction accepted.
C40_AcceptedConfigurationRuns ==
    /\ config.chunk_size >= 1
    /\ pc # "run_panicked"

====
